---- MODULE Spec2Model ----
(***************************************************************************)
(* MindGarden: slot allocation, island layout and planting.                *)
(*                                                                         *)
(* The repository holds two generations of the garden:                     *)
(*   "app"   - App.tsx places a thought with getNextAvailablePosition      *)
(*             (12 slots per island, unbounded scan); the DOM GardenCanvas *)
(*             derives the number of islands from the thoughts.            *)
(*   "konva" - hooks/useIslandLayout.ts: getNextAvailableSlot scans the    *)
(*             slots of islandCount islands and reports exhaustion as null;*)
(*             the caller grows islandCount and retries.                   *)
(*                                                                         *)
(* Percentages are floating point numbers in the program.  The model keeps *)
(* them as integers counted in steps of 1/Res of a percentage point, so a  *)
(* stored coordinate can lie strictly between two whole percentages and    *)
(* the "< 1" tolerance of the reverse lookup is not an equality test.      *)
(***************************************************************************)
EXTENDS Integers, Sequences, FiniteSets, TLC

\* ------------------------------------------------------------------ bounds
\* steps per percentage point in which coordinates are counted
Res == 2
\* thoughts planted in one behaviour of the garden
MaxPlants == 14
\* thoughts deleted in one behaviour of the garden
MaxDeletes == 1
\* island counts passed to the allocator when it is called on drawn inputs
MaxIslandCount == 3
\* length of the thought lists drawn as allocator inputs
MaxLen == 3
\* plants submitted in one behaviour of the asynchronous handlers
MaxSubmits == 3

\* water submissions accepted in one run of the watered garden
MaxWaters == 2

\* thoughts planted in one run of the watered garden
MaxWaterPlants == 2

\* the camera's numbers are fixed-point: a scale counts steps of
\* 1/(1000 * CamRes), a pixel length steps of 1/(10 * CamRes) pixel
CamRes == 1

\* animation frames a tween plays from start to finish
TweenFrames == 2

\* wheel events, pointer events, island count changes and resizes handled in
\* one run of the camera
MaxEvents == 3

\* wheel events of the longest scroll gesture, handled one right after the
\* other
MaxBurst == 10

\* ------------------------------------------------------------- arithmetic
Abs(n) == IF n < 0 THEN -n ELSE n

\* Math.floor(a / b) for b > 0
FloorDiv(a, b) == IF a >= 0 THEN a \div b ELSE -(((-a) + b - 1) \div b)

\* JavaScript's a % b for b > 0: the result takes the sign of a
JsMod(a, b) == IF a >= 0 THEN a % b ELSE -((-a) % b)

\* one hundred percent, the width of one island in stored x
Hundred == 100 * Res

\* the value null
NULL == [null |-> TRUE]

\* -------------------------------------------------- hooks/useIslandLayout
\* the slot list of the hook as it stands: eleven of the twelve entries are
\* commented out
ISLAND_SLOTS == << [x |-> 15, y |-> 55] >>

SLOTS_PER_ISLAND == Len(ISLAND_SLOTS)

\* the lookup with the tolerance widened to two percentage points
RECURSIVE FindSlotFrom_wideTolerance(_, _, _, _)
FindSlotFrom_wideTolerance(slots, k, localX, localY) ==
  IF k > Len(slots) THEN -1
  ELSE IF Abs(slots[k].x * Res - localX) < 2 * Res
          /\ Abs(slots[k].y * Res - localY) < 2 * Res
       THEN k - 1
       ELSE FindSlotFrom_wideTolerance(slots, k + 1, localX, localY)

\* Array.prototype.findIndex over a slot list with the tolerance test of the
\* reverse lookup; 0-based, -1 when no slot matches
RECURSIVE FindSlotFrom(_, _, _, _)
FindSlotFrom(slots, k, localX, localY) ==
  IF k > Len(slots) THEN -1
  ELSE IF Abs(slots[k].x * Res - localX) < 1 * Res
          /\ Abs(slots[k].y * Res - localY) < 1 * Res
       THEN k - 1
       ELSE FindSlotFrom(slots, k + 1, localX, localY)

\* the lookup that forgets the island: the local slot index alone
positionToGlobalIndex_noIsland(pos) ==
  LET localX == JsMod(pos.x, Hundred)
      localY == pos.y
  IN FindSlotFrom(ISLAND_SLOTS, 1, localX, localY)

\* the lookup that compares the whole x, island offset included, with the slots
positionToGlobalIndex_noModulo(pos) ==
  LET islandIndex == FloorDiv(pos.x, Hundred)
      localX == pos.x
      localY == pos.y
      slotIndex == FindSlotFrom(ISLAND_SLOTS, 1, localX, localY)
  IN IF slotIndex = -1 THEN -1
     ELSE islandIndex * SLOTS_PER_ISLAND + slotIndex

positionToGlobalIndex(pos) ==
  LET islandIndex == FloorDiv(pos.x, Hundred)
      localX == JsMod(pos.x, Hundred)
      localY == pos.y
      slotIndex == FindSlotFrom(ISLAND_SLOTS, 1, localX, localY)
  IN IF slotIndex = -1 THEN -1
     ELSE islandIndex * SLOTS_PER_ISLAND + slotIndex

RECURSIVE OccupiedFrom(_, _)
OccupiedFrom(thoughts, k) ==
  IF k > Len(thoughts) THEN {}
  ELSE LET idx == positionToGlobalIndex(thoughts[k].position)
       IN (IF idx # -1 THEN {idx} ELSE {}) \cup OccupiedFrom(thoughts, k + 1)

getOccupiedIndices(thoughts) == OccupiedFrom(thoughts, 1)

\* the scan that runs one index past the last slot
RECURSIVE ScanSlots_inclusiveBound(_, _, _)
ScanSlots_inclusiveBound(occupied, i, totalSlots) ==
  IF i > totalSlots THEN NULL
  ELSE IF i \notin occupied
       THEN [islandIndex |-> i \div SLOTS_PER_ISLAND,
             slotIndex   |-> i % SLOTS_PER_ISLAND,
             globalIndex |-> i]
       ELSE ScanSlots_inclusiveBound(occupied, i + 1, totalSlots)

\* the scan that takes the island index with % instead of a division
RECURSIVE ScanSlots_islandByModulo(_, _, _)
ScanSlots_islandByModulo(occupied, i, totalSlots) ==
  IF i >= totalSlots THEN NULL
  ELSE IF i \notin occupied
       THEN [islandIndex |-> i % SLOTS_PER_ISLAND,
             slotIndex   |-> i % SLOTS_PER_ISLAND,
             globalIndex |-> i]
       ELSE ScanSlots_islandByModulo(occupied, i + 1, totalSlots)

RECURSIVE ScanSlots(_, _, _)
ScanSlots(occupied, i, totalSlots) ==
  IF i >= totalSlots THEN NULL
  ELSE IF i \notin occupied
       THEN [islandIndex |-> i \div SLOTS_PER_ISLAND,
             slotIndex   |-> i % SLOTS_PER_ISLAND,
             globalIndex |-> i]
       ELSE ScanSlots(occupied, i + 1, totalSlots)

\* the allocator that never fills a gap: it starts after the highest occupied
\* index
getNextAvailableSlot_noGapFill(thoughts, count) ==
  LET occupied == getOccupiedIndices(thoughts)
      totalSlots == count * SLOTS_PER_ISLAND
      start == IF occupied = {} THEN 0
               ELSE 1 + CHOOSE m \in occupied : \A o \in occupied : o <= m
  IN ScanSlots(occupied, start, totalSlots)

getNextAvailableSlot(thoughts, count) ==
  LET occupied == getOccupiedIndices(thoughts)
      totalSlots == count * SLOTS_PER_ISLAND
  IN ScanSlots(occupied, 0, totalSlots)

\* useIslandLayout: isFull = occupiedCount >= totalSlots
isFull(thoughts, count) ==
  Cardinality(getOccupiedIndices(thoughts)) >= count * SLOTS_PER_ISLAND

slotToPosition(slot) ==
  LET localSlot == ISLAND_SLOTS[slot.slotIndex + 1]
  IN [x |-> slot.islandIndex * Hundred + localSlot.x * Res,
      y |-> localSlot.y * Res]

\* ------------------------------------------------------------------ App.tsx
App_ISLAND_SLOTS ==
  << [x |-> 15, y |-> 55], [x |-> 35, y |-> 40], [x |-> 50, y |-> 45],
     [x |-> 25, y |-> 65], [x |-> 45, y |-> 60], [x |-> 20, y |-> 80],
     [x |-> 40, y |-> 75],
     [x |-> 75, y |-> 50], [x |-> 90, y |-> 60], [x |-> 65, y |-> 70],
     [x |-> 85, y |-> 75], [x |-> 75, y |-> 85] >>

App_SLOTS_PER_ISLAND == Len(App_ISLAND_SLOTS)

\* the forEach of getNextAvailablePosition: one thought's global index, or -1
App_globalIndexOf(pos) ==
  LET islandIndex == FloorDiv(pos.x, Hundred)
      localX == JsMod(pos.x, Hundred)
      localY == pos.y
      slotIndex == FindSlotFrom(App_ISLAND_SLOTS, 1, localX, localY)
  IN IF slotIndex # -1
     THEN islandIndex * App_SLOTS_PER_ISLAND + slotIndex
     ELSE -1

RECURSIVE App_OccupiedFrom(_, _)
App_OccupiedFrom(thoughts, k) ==
  IF k > Len(thoughts) THEN {}
  ELSE LET g == App_globalIndexOf(thoughts[k].position)
       IN (IF g # -1 THEN {g} ELSE {}) \cup App_OccupiedFrom(thoughts, k + 1)

\* while (occupiedIndices.has(i)) i++
RECURSIVE App_FirstFree(_, _)
App_FirstFree(occupiedIndices, i) ==
  IF i \in occupiedIndices THEN App_FirstFree(occupiedIndices, i + 1) ELSE i

\* the free index converted back to a position
App_indexToPosition(i) ==
  LET islandIndex == i \div App_SLOTS_PER_ISLAND
      localSlotIndex == i % App_SLOTS_PER_ISLAND
      slot == App_ISLAND_SLOTS[localSlotIndex + 1]
  IN [x |-> islandIndex * Hundred + slot.x * Res, y |-> slot.y * Res]

\* the allocator that takes the number of thoughts as the next index
getNextAvailablePosition_byCount(currentThoughts) ==
  App_indexToPosition(Len(currentThoughts))

getNextAvailablePosition(currentThoughts) ==
  LET occupiedIndices == App_OccupiedFrom(currentThoughts, 1)
      i == App_FirstFree(occupiedIndices, 0)
  IN App_indexToPosition(i)

\* ------------------------------------------- DOM GardenCanvas (island count)
RECURSIVE MaxIslandIndexFrom(_, _, _)
MaxIslandIndexFrom(thoughts, k, max) ==
  IF k > Len(thoughts) THEN max
  ELSE LET isl == FloorDiv(thoughts[k].position.x, Hundred)
       IN MaxIslandIndexFrom(thoughts, k + 1, IF isl > max THEN isl ELSE max)

\* the island count without the + 1
totalIslands_noPlusOne(thoughts) ==
  LET maxIslandIndex == MaxIslandIndexFrom(thoughts, 1, 0)
  IN IF maxIslandIndex > 1 THEN maxIslandIndex ELSE 1

totalIslands(thoughts) ==
  LET maxIslandIndex == MaxIslandIndexFrom(thoughts, 1, 0)
  IN IF maxIslandIndex + 1 > 1 THEN maxIslandIndex + 1 ELSE 1

\* ---------------------------------------------------------- storageService
\* existing.findIndex(t => t.id === id), 1-based, 0 when absent
RECURSIVE IndexOfId(_, _, _)
IndexOfId(list, id, k) ==
  IF k > Len(list) THEN 0
  ELSE IF list[k].id = id THEN k ELSE IndexOfId(list, id, k + 1)

\* the list of a saveThought that never looks for the id
SavedList_alwaysFirst(existing, thought) ==
  <<thought>> \o existing

\* the list saveThought writes: replace in place, or put the new one first
SavedList(existing, thought) ==
  LET index == IndexOfId(existing, thought.id, 1)
  IN IF index # 0
     THEN [existing EXCEPT ![index] = thought]
     ELSE <<thought>> \o existing

\* the list deleteThought writes
RECURSIVE DeletedList(_, _)
DeletedList(existing, id) ==
  IF existing = << >> THEN << >>
  ELSE IF Head(existing).id # id
       THEN <<Head(existing)>> \o DeletedList(Tail(existing), id)
       ELSE DeletedList(Tail(existing), id)

\* thoughts.sort((a, b) => a.createdAt - b.createdAt): a stable insertion sort
RECURSIVE InsertByCreatedAt(_, _)
InsertByCreatedAt(sorted, t) ==
  IF sorted = << >> THEN <<t>>
  ELSE IF Head(sorted).createdAt < t.createdAt
       THEN <<Head(sorted)>> \o InsertByCreatedAt(Tail(sorted), t)
       ELSE <<t>> \o sorted

RECURSIVE SortByCreatedAt(_)
SortByCreatedAt(list) ==
  IF list = << >> THEN << >>
  ELSE InsertByCreatedAt(SortByCreatedAt(Tail(list)), Head(list))

\* ------------------------------------------- layout and camera: pure functions
ScaleUnit == 1000 * CamRes

PxUnit == 10 * CamRes

\* n / d rounded to the nearest step (d > 0)
Round(n, d) == FloorDiv(2 * n + d, 2 * d)

Min2(a, b) == IF a < b THEN a ELSE b

Max2(a, b) == IF a > b THEN a ELSE b

\* a length of p pixels
Px(p) == p * PxUnit

\* the scale that is the quotient of two lengths
Ratio(len, by) == Round(len * ScaleUnit, by)

\* a length times a scale, a length divided by a scale
Times(len, scale) == Round(len * scale, ScaleUnit)

Over(len, scale) == Round(len * ScaleUnit, scale)

ISLAND_WIDTH == Px(900)

ISLAND_HEIGHT == Px(600)

ISLAND_GAP == Px(60)

ISLANDS_PER_ROW == 2

\* Math.ceil(a / b) for a >= 0, b > 0
CeilDiv(a, b) == FloorDiv(a + b - 1, b)

\* an origin that fills columns before rows
getIslandOrigin_columnFirst(islandIndex) ==
  LET col == FloorDiv(islandIndex, ISLANDS_PER_ROW)
      row == JsMod(islandIndex, ISLANDS_PER_ROW)
  IN [x |-> col * (ISLAND_WIDTH + ISLAND_GAP),
      y |-> row * (ISLAND_HEIGHT + ISLAND_GAP)]

\* the world position of an island's top-left corner
\* origins of islands laid side by side without the gap
getIslandOrigin_noGap(islandIndex) ==
  LET col == JsMod(islandIndex, ISLANDS_PER_ROW)
      row == FloorDiv(islandIndex, ISLANDS_PER_ROW)
  IN [x |-> col * ISLAND_WIDTH,
      y |-> row * ISLAND_HEIGHT]

getIslandOrigin(islandIndex) ==
  LET col == JsMod(islandIndex, ISLANDS_PER_ROW)
      row == FloorDiv(islandIndex, ISLANDS_PER_ROW)
  IN [x |-> col * (ISLAND_WIDTH + ISLAND_GAP),
      y |-> row * (ISLAND_HEIGHT + ISLAND_GAP)]

\* the source SVG and the region of it that is drawn
SVG_FULL_W == 1254

SVG_FULL_H == 836

SVG_CROP == [x |-> 30, y |-> 160, width |-> 1115, height |-> 610]

\* world coordinates of a place on an island are whole numbers of
\* 1 / (Hundred * SVG_CROP.width) and 1 / (Hundred * SVG_CROP.height) pixels:
\* origin + ((local / 100 * SVG_FULL - crop offset) / crop size) * island size
WorldOf(origin, localX, localY) ==
  [x |-> (origin.x \div PxUnit) * (Hundred * SVG_CROP.width)
           + (localX * SVG_FULL_W - SVG_CROP.x * Hundred) * (ISLAND_WIDTH \div PxUnit),
   y |-> (origin.y \div PxUnit) * (Hundred * SVG_CROP.height)
           + (localY * SVG_FULL_H - SVG_CROP.y * Hundred) * (ISLAND_HEIGHT \div PxUnit)]

\* a conversion that takes the percentage of the whole x for the local one
thoughtToWorldPosition_wholeX(position) ==
  WorldOf(getIslandOrigin(FloorDiv(position.x, Hundred)), position.x, position.y)

\* thoughtToWorldPosition: the island from floor(x / 100), the local
\* percentage from x % 100
thoughtToWorldPosition(position) ==
  LET islandIndex == FloorDiv(position.x, Hundred)
      localX == JsMod(position.x, Hundred)
      localY == position.y
  IN WorldOf(getIslandOrigin(islandIndex), localX, localY)

\* worldX and worldY of the SlotInfo getNextAvailableSlot returns
slotWorld(slot) ==
  LET localSlot == ISLAND_SLOTS[slot.slotIndex + 1]
  IN WorldOf(getIslandOrigin(slot.islandIndex), localSlot.x * Res, localSlot.y * Res)

\* useIslandLayout's islands: Array.from({ length: islandCount }, ...)
islands(count) ==
  [k \in 1..count |->
     LET origin == getIslandOrigin(k - 1)
     IN [index |-> k - 1, x |-> origin.x, y |-> origin.y,
         width |-> ISLAND_WIDTH, height |-> ISLAND_HEIGHT]]

\* a world size that counts only the rows that are full
getWorldSize_fullRowsOnly(count) ==
  IF count <= 0
  THEN [width |-> ISLAND_WIDTH, height |-> ISLAND_HEIGHT]
  ELSE LET cols == Min2(count, ISLANDS_PER_ROW)
           rows == FloorDiv(count, ISLANDS_PER_ROW)
       IN [width |-> cols * ISLAND_WIDTH + (cols - 1) * ISLAND_GAP,
           height |-> rows * ISLAND_HEIGHT + (rows - 1) * ISLAND_GAP]

getWorldSize(count) ==
  IF count <= 0
  THEN [width |-> ISLAND_WIDTH, height |-> ISLAND_HEIGHT]
  ELSE LET cols == Min2(count, ISLANDS_PER_ROW)
           rows == CeilDiv(count, ISLANDS_PER_ROW)
       IN [width |-> cols * ISLAND_WIDTH + (cols - 1) * ISLAND_GAP,
           height |-> rows * ISLAND_HEIGHT + (rows - 1) * ISLAND_GAP]

MIN_SCALE == (15 * ScaleUnit) \div 100

MAX_SCALE == 2 * ScaleUnit

ZOOM_SENSITIVITY == (108 * ScaleUnit) \div 100

\* the scale 1
NativeScale == ScaleUnit

\* the margin both fits add to the world size, and the scale floor they use
FitMargin == Px(100)

FitFloor == (15 * ScaleUnit) \div 100

\* a fit that zooms in past 1:1 on a large viewport
fitCamera_noNativeCap(size, world) ==
  LET fitScale == Min2(Ratio(size.width, world.width + FitMargin),
                       Ratio(size.height, world.height + FitMargin))
      scale == Max2(fitScale, FitFloor)
  IN [scale |-> scale,
      x |-> Round(size.width - Times(world.width, scale), 2),
      y |-> Round(size.height - Times(world.height, scale), 2)]

\* the camera both effects of GardenCanvas compute: the world fitted into the
\* viewport with a margin, not above 1:1 and not below 0.15, centred
fitCamera(size, world) ==
  LET fitScale == Min2(Min2(Ratio(size.width, world.width + FitMargin),
                            Ratio(size.height, world.height + FitMargin)),
                       NativeScale)
      scale == Max2(fitScale, FitFloor)
  IN [scale |-> scale,
      x |-> Round(size.width - Times(world.width, scale), 2),
      y |-> Round(size.height - Times(world.height, scale), 2)]

\* a wheel step that is not held at the minimum scale
zoomedScale_noMinimum(oldScale, direction) ==
  Min2(MAX_SCALE,
       IF direction > 0
       THEN Round(oldScale * ZOOM_SENSITIVITY, ScaleUnit)
       ELSE Round(oldScale * ScaleUnit, ZOOM_SENSITIVITY))

\* handleWheel: the old scale times or divided by the sensitivity, clamped
zoomedScale(oldScale, direction) ==
  Min2(MAX_SCALE,
       Max2(MIN_SCALE,
            IF direction > 0
            THEN Round(oldScale * ZOOM_SENSITIVITY, ScaleUnit)
            ELSE Round(oldScale * ScaleUnit, ZOOM_SENSITIVITY)))

\* a wheel step that scales about the stage origin and keeps the offsets
wheelCamera_offsetsKept(node, pointer, direction) ==
  [scale |-> zoomedScale(node.scale, direction), x |-> node.x, y |-> node.y]

\* handleWheel: the camera it sets, from the stage node's scale and position,
\* the pointer position and the wheel direction
wheelCamera(node, pointer, direction) ==
  LET oldScale == node.scale
      newScale == zoomedScale(oldScale, direction)
      mousePointTo == [x |-> Over(pointer.x - node.x, oldScale),
                       y |-> Over(pointer.y - node.y, oldScale)]
      newPos == [x |-> pointer.x - Times(mousePointTo.x, newScale),
                 y |-> pointer.y - Times(mousePointTo.y, newScale)]
  IN [scale |-> newScale, x |-> newPos.x, y |-> newPos.y]

\* Konva.Easings.EaseInOut: the part of the change c done after frame k of f
EaseInOut(c, k, f) ==
  IF 2 * k < f
  THEN Round(c * 2 * k * k, f * f)
  ELSE LET v == 2 * k - f
       IN Round(c * (f * f + 2 * v * f - v * v), 2 * f * f)

\* the stage attributes a tween sets at frame k
TweenAt(tw, k) ==
  [scale |-> tw.from.scale
               + EaseInOut(tw.to.scale - tw.from.scale, k, TweenFrames),
   x |-> tw.from.x + EaseInOut(tw.to.x - tw.from.x, k, TweenFrames),
   y |-> tw.from.y + EaseInOut(tw.to.y - tw.from.y, k, TweenFrames)]

\* the Stage element is rendered with the camera as its props: the props that
\* changed are written to the node
Rendered(node, oldProps, props) ==
  [scale |-> IF props.scale # oldProps.scale THEN props.scale ELSE node.scale,
   x |-> IF props.x # oldProps.x THEN props.x ELSE node.x,
   y |-> IF props.y # oldProps.y THEN props.y ELSE node.y]

\* animRef.current when no tween is held
NoTween == 0

\* an animateZoomOut that leaves the running tween playing
AfterDestroy_stillPlaying(playing, ref) == playing

\* animateZoomOut: the tweens still playing once the tween animRef holds has
\* been destroyed
AfterDestroy(playing, ref) == { tw \in playing : tw.id # ref }

\* ------------------------------------------------------------------- state
VARIABLES
  variant,        \* which generation of the garden runs: "app" or "konva"
  storage,        \* the stored thought list (storageService), newest first
  gardenThoughts, \* App's gardenThoughts state
  islandCount,    \* the island count the konva garden allocates and draws with
  clock,          \* thoughts created so far: source of id and createdAt
  deletes,        \* thoughts deleted so far
  lastOp,         \* the handler that ran last: "none", "plant", "delete"
  afterDelete,    \* the last plant directly followed a delete
  lastDeleted,    \* the thought removed by the last delete
  lastPlanted,    \* the thought created by the last plant
  firstSlot,      \* konva: what getNextAvailableSlot returned to the last plant
  retrySlot,      \* konva: what the retry after a null returned
  inThoughts,     \* allocator called on drawn inputs: the thought list
  inCount,        \*   the island count
  outSlot,        \*   what getNextAvailableSlot returned
  outStored,      \*   slotToPosition of the returned slot
  outPosition,    \*   what getNextAvailablePosition returned
  prevSlot,       \*   outSlot before a thought was added to the list
  prevPosition,   \*   outPosition before a thought was added to the list
  added,          \*   the thought added to the list, with its reverse lookups
  removed,        \*   the thought removed from the list
  rtInput,        \* round trip: the generation, island and local slot drawn
  rtPosition,     \*   the stored position the slot converts to
  rtIndex,        \*   the global index the stored position looks up as
  isLoading,      \* App's isLoading state
  plantPc,        \* per handlePlant invocation: the await it is suspended at
  plantClosure,   \*   the gardenThoughts its closure captured
  plantCard,      \*   the card it built
  plantRead,      \*   the list its storage reads returned
  submits,        \* plant submissions accepted so far
  refused,        \* a submission was dropped because a plant was loading
  delPc,          \* the handleDelete invocation: the await it is suspended at
  delId,          \*   the id it deletes
  delRead,        \*   the list its storage reads returned
  watPc,          \* the handleWater invocation: the await it is suspended at
  watThought,     \*   the thought it was called with
  watCard,        \*   the updated thought it built
  watRead,        \*   the list its storage reads returned
  waters,         \* water submissions accepted so far
  camera,         \* useKonvaCamera's camera state: scale, x, y
  stage,          \* the Konva stage node's scale, x, y
  stageSize,      \* GardenCanvas's stage size: width, height
  initialized,    \* initializedRef of the initial fit effect
  prevIslandCount, \* prevIslandCountRef of the auto-expand effect
  isPanning,      \* the isPanning ref
  panStart,       \* the panStart ref
  animRef,        \* animRef: the id of the tween it holds, or NoTween
  tweens,         \* the tweens that are playing on the stage
  started,        \* tweens created so far: source of tween ids
  events,         \* wheel, pointer, island count and resize events so far
  lastEvent,      \* the camera event handled last, with its inputs
  layInput,       \* layout: the input drawn for a layout function
  layOutput,      \*   what the function returned for it
  service,        \* which copy of geminiService runs: "services" or "part_007"
  retriesLeft,    \* callWithRetry: the retries argument of the current invocation
  delay,          \*   its delay argument, in ms
  attempts,       \*   calls of fn made so far
  waits,          \*   the delays waited so far, in ms
  caught,         \*   the errors caught so far
  callPc,         \*   where the call stands
  svcInput,       \* a service or handler function called on drawn outcomes: its input
  svcOutput,       \*   what it returned or did
  accessToken,    \* spotifyService: the cached token, 0 for null
  tokenExpiresAt, \*   the recorded expiry of the cached token
  now,            \*   Date.now(), in ticks
  expiryOf,       \*   the real expiry of every token the auth endpoint has issued
  tokPc,          \*   getSpotifyAccessToken: idle or awaiting the auth endpoint
  tokCall,        \*   the cache and the time when the running call started
  tokOut          \*   what the last call returned or threw

gardenVars == << variant, storage, gardenThoughts, islandCount, clock, deletes,
                 lastOp, afterDelete, lastDeleted, lastPlanted, firstSlot,
                 retrySlot >>

allocVars == << inThoughts, inCount, outSlot, outStored, outPosition, prevSlot,
                prevPosition, added, removed >>

rtVars == << rtInput, rtPosition, rtIndex >>

asyncVars == << isLoading, plantPc, plantClosure, plantCard, plantRead,
                submits, refused, delPc, delId, delRead >>

waterVars == << watPc, watThought, watCard, watRead, waters >>

cameraVars == << camera, stage, stageSize, initialized, prevIslandCount,
                 isPanning, panStart, animRef, tweens, started, lastEvent,
                 events >>

layoutVars == << layInput, layOutput >>

serviceVars == << service, retriesLeft, delay, attempts, waits, caught, callPc, svcInput, svcOutput >>

tokenVars == << accessToken, tokenExpiresAt, now, expiryOf, tokPc, tokCall, tokOut >>

vars == << gardenVars, allocVars, rtVars, asyncVars, waterVars, cameraVars,
    layoutVars,
    serviceVars,
    tokenVars >>

NoThought == [none |-> TRUE]

NotCalled == [notCalled |-> TRUE]

\* the card handlePlant builds: a seed with an empty update log
NewCard(n, position) ==
  [id |-> n, createdAt |-> n, position |-> position, growthStage |-> "seed",
   updates |-> << >>]

\* refreshGarden: read the store and publish it sorted by creation time
Refreshed(stored) == SortByCreatedAt(stored)

\* the allocator-input variables while the garden runs
AllocIdle ==
  /\ inThoughts = << >>
  /\ inCount = 1
  /\ outSlot = NotCalled
  /\ outStored = NotCalled
  /\ outPosition = NotCalled
  /\ prevSlot = NotCalled
  /\ prevPosition = NotCalled
  /\ added = NoThought
  /\ removed = NoThought

\* the round-trip variables while nothing is converted
RoundTripIdle ==
  /\ rtInput = NotCalled
  /\ rtPosition = NotCalled
  /\ rtIndex = NotCalled

\* handlePlant invocations that can be in flight in the model
Plants == 1..2

\* the handler variables while no handler is suspended
AsyncIdle ==
  /\ isLoading = FALSE
  /\ plantPc = [p \in Plants |-> "idle"]
  /\ plantClosure = [p \in Plants |-> << >>]
  /\ plantCard = [p \in Plants |-> NoThought]
  /\ plantRead = [p \in Plants |-> << >>]
  /\ submits = 0
  /\ refused = FALSE
  /\ delPc = "idle"
  /\ delId = 0
  /\ delRead = << >>

\* the watering variables while no thought is being watered
WaterIdle ==
  /\ watPc = "idle"
  /\ watThought = NoThought
  /\ watCard = NoThought
  /\ watRead = << >>
  /\ waters = 0

\* the Spotify token cache is not used
TokenIdle ==
  /\ accessToken = 0
  /\ tokenExpiresAt = 0
  /\ now = 0
  /\ expiryOf = << >>
  /\ tokPc = "idle"
  /\ tokCall = NotCalled
  /\ tokOut = NotCalled

\* the service variables while no service function is called
ServiceIdle ==
  /\ service = "none"
  /\ retriesLeft = 0
  /\ delay = 0
  /\ attempts = 0
  /\ waits = << >>
  /\ caught = << >>
  /\ callPc = "idle"
  /\ svcInput = NotCalled
  /\ svcOutput = NotCalled

\* the layout variables while no layout function is called on drawn inputs
LayoutIdle ==
  /\ layInput = NotCalled
  /\ layOutput = NotCalled

\* the camera variables before the garden canvas is mounted
CameraIdle ==
  /\ camera = NotCalled
  /\ stage = NotCalled
  /\ stageSize = NotCalled
  /\ initialized = FALSE
  /\ prevIslandCount = 1
  /\ isPanning = FALSE
  /\ panStart = [x |-> 0, y |-> 0]
  /\ animRef = NoTween
  /\ tweens = {}
  /\ started = 0
  /\ events = 0
  /\ lastEvent = [kind |-> "none"]

\* the garden variables while only pure functions are called
GardenIdle ==
  /\ variant = "none"
  /\ storage = << >>
  /\ gardenThoughts = << >>
  /\ islandCount = 1
  /\ clock = 0
  /\ deletes = 0
  /\ lastOp = "none"
  /\ afterDelete = FALSE
  /\ lastDeleted = NoThought
  /\ lastPlanted = NoThought
  /\ firstSlot = NotCalled
  /\ retrySlot = NotCalled

\* ------------------------------------------------ the garden, run to completion
GardenInit ==
  /\ variant \in {"app", "konva"}
  /\ storage = << >>
  /\ gardenThoughts = << >>
  /\ islandCount = 1
  /\ clock = 0
  /\ deletes = 0
  /\ lastOp = "none"
  /\ afterDelete = FALSE
  /\ lastDeleted = NoThought
  /\ lastPlanted = NoThought
  /\ firstSlot = NotCalled
  /\ retrySlot = NotCalled
  /\ AllocIdle
  /\ RoundTripIdle
  /\ AsyncIdle
  /\ WaterIdle
  /\ CameraIdle
  /\ LayoutIdle
  /\ ServiceIdle
  /\ TokenIdle

\* App.handlePlant with every await succeeding
handlePlant ==
  /\ variant = "app"
  /\ clock < MaxPlants
  /\ LET position == getNextAvailablePosition(gardenThoughts)
         newCard == NewCard(clock + 1, position)
         saved == SavedList(storage, newCard)
     IN /\ storage' = saved
        /\ gardenThoughts' = Refreshed(saved)
        /\ lastPlanted' = newCard
  /\ clock' = clock + 1
  /\ lastOp' = "plant"
  /\ afterDelete' = (lastOp = "delete")
  /\ UNCHANGED << variant, islandCount, deletes, lastDeleted, firstSlot, retrySlot >>
  /\ UNCHANGED << allocVars, rtVars, asyncVars, waterVars, cameraVars,
    layoutVars,
    serviceVars,
    tokenVars >>

\* the plant of the konva garden: allocate, and on null grow the island count
\* by one and allocate again
plantWithExpansion ==
  /\ variant = "konva"
  /\ clock < MaxPlants
  /\ LET first == getNextAvailableSlot(gardenThoughts, islandCount)
         grown == IF first = NULL THEN islandCount + 1 ELSE islandCount
         retry == IF first = NULL
                  THEN getNextAvailableSlot(gardenThoughts, grown)
                  ELSE NotCalled
         slot == IF first = NULL THEN retry ELSE first
     IN /\ firstSlot' = first
        /\ retrySlot' = retry
        /\ islandCount' = grown
        /\ IF slot = NULL
           THEN UNCHANGED << storage, gardenThoughts, lastPlanted, clock >>
           ELSE LET newCard == NewCard(clock + 1, slotToPosition(slot))
                    saved == SavedList(storage, newCard)
                IN /\ storage' = saved
                   /\ gardenThoughts' = Refreshed(saved)
                   /\ lastPlanted' = newCard
                   /\ clock' = clock + 1
  /\ lastOp' = "plant"
  /\ afterDelete' = (lastOp = "delete")
  /\ UNCHANGED << variant, deletes, lastDeleted >>
  /\ UNCHANGED << allocVars, rtVars, asyncVars, waterVars, cameraVars,
    layoutVars,
    serviceVars,
    tokenVars >>

\* App.handleDelete, confirmed by the user, with every await succeeding
handleDelete(k) ==
  /\ deletes < MaxDeletes
  /\ k \in 1..Len(gardenThoughts)
  /\ LET updated == DeletedList(storage, gardenThoughts[k].id)
     IN /\ storage' = updated
        /\ gardenThoughts' = Refreshed(updated)
  /\ lastDeleted' = gardenThoughts[k]
  /\ deletes' = deletes + 1
  /\ lastOp' = "delete"
  /\ UNCHANGED << variant, islandCount, clock, afterDelete, lastPlanted,
                  firstSlot, retrySlot >>
  /\ UNCHANGED << allocVars, rtVars, asyncVars, waterVars, cameraVars,
    layoutVars,
    serviceVars,
    tokenVars >>

GardenNext ==
  \/ handlePlant
  \/ plantWithExpansion
  \/ \E k \in 1..MaxPlants : handleDelete(k)

SpecGarden == GardenInit /\ [][GardenNext]_vars

\* ------------------------------------- the allocators called on drawn inputs
\* a stored position given in whole percentages plus dx, dy steps of 1/Res
Pct(x, y, dx, dy) == [x |-> x * Res + dx, y |-> y * Res + dy]

\* positions thought records can carry: slots of three islands of the hook,
\* a slot with sub-percent jitter, a point exactly one percent off a slot, a
\* slot known to App.tsx only, a free-form position of the category placement
\* (part_003), and a position left of the first island
PositionUniverse ==
  { Pct(15, 55, 0, 0), Pct(115, 55, 0, 0), Pct(215, 55, 0, 0),
    Pct(15, 55, 1, -1), Pct(16, 55, 0, 0), Pct(35, 40, 0, 0),
    Pct(62, 18, 0, 0), Pct(-85, 55, 0, 0) }

RECURSIVE PositionLists(_)
PositionLists(n) ==
  IF n = 0 THEN { << >> }
  ELSE LET shorter == PositionLists(n - 1)
       IN shorter \cup { Append(l, pos) : l \in { m \in shorter : Len(m) = n - 1 },
                                          pos \in PositionUniverse }

\* island 0 of the app garden with every slot taken
FullIsland == [k \in 1..App_SLOTS_PER_ISLAND |-> App_indexToPosition(k - 1)]

ThoughtsAt(positions) == [k \in 1..Len(positions) |-> NewCard(k, positions[k])]

InputLists == { ThoughtsAt(l) : l \in PositionLists(MaxLen) \cup {FullIsland} }

RemoveAt(list, k) == SubSeq(list, 1, k - 1) \o SubSeq(list, k + 1, Len(list))

AllocInit ==
  /\ GardenIdle
  /\ RoundTripIdle
  /\ AsyncIdle
  /\ WaterIdle
  /\ CameraIdle
  /\ LayoutIdle
  /\ ServiceIdle
  /\ TokenIdle
  /\ inThoughts \in InputLists
  /\ inCount \in 1..MaxIslandCount
  /\ outSlot = NotCalled
  /\ outStored = NotCalled
  /\ outPosition = NotCalled
  /\ prevSlot = NotCalled
  /\ prevPosition = NotCalled
  /\ added = NoThought
  /\ removed = NoThought

StoredFor(slot) == IF slot = NULL THEN NULL ELSE slotToPosition(slot)

\* both allocators are asked for the next place in the current list
CallAllocators ==
  /\ outSlot = NotCalled
  /\ outSlot' = getNextAvailableSlot(inThoughts, inCount)
  /\ outStored' = StoredFor(getNextAvailableSlot(inThoughts, inCount))
  /\ outPosition' = getNextAvailablePosition(inThoughts)
  /\ UNCHANGED << inThoughts, inCount, prevSlot, prevPosition, added, removed >>
  /\ UNCHANGED << gardenVars, rtVars, asyncVars, waterVars, cameraVars,
    layoutVars,
    serviceVars,
    tokenVars >>

\* a thought leaves the list between two calls
RemoveThought(k) ==
  /\ outSlot # NotCalled
  /\ removed = NoThought
  /\ added = NoThought
  /\ k \in 1..Len(inThoughts)
  /\ removed' = inThoughts[k]
  /\ inThoughts' = RemoveAt(inThoughts, k)
  /\ outSlot' = NotCalled
  /\ outStored' = NotCalled
  /\ outPosition' = NotCalled
  /\ UNCHANGED << inCount, prevSlot, prevPosition, added >>
  /\ UNCHANGED << gardenVars, rtVars, asyncVars, waterVars, cameraVars,
    layoutVars,
    serviceVars,
    tokenVars >>

\* a thought with any position joins the list, and the allocators are asked
\* again
AddThought(pos) ==
  /\ outSlot # NotCalled
  /\ removed = NoThought
  /\ added = NoThought
  /\ LET t == NewCard(Len(inThoughts) + 1, pos)
         longer == Append(inThoughts, t)
     IN /\ inThoughts' = longer
        /\ added' = [thought |-> t,
                     hookIndex |-> positionToGlobalIndex(pos),
                     appIndex |-> App_globalIndexOf(pos)]
        /\ outSlot' = getNextAvailableSlot(longer, inCount)
        /\ outStored' = StoredFor(getNextAvailableSlot(longer, inCount))
        /\ outPosition' = getNextAvailablePosition(longer)
  /\ prevSlot' = outSlot
  /\ prevPosition' = outPosition
  /\ UNCHANGED << inCount, removed >>
  /\ UNCHANGED << gardenVars, rtVars, asyncVars, waterVars, cameraVars,
    layoutVars,
    serviceVars,
    tokenVars >>

AllocNext ==
  \/ CallAllocators
  \/ \E k \in 1..(MaxLen + App_SLOTS_PER_ISLAND) : RemoveThought(k)
  \/ \E pos \in PositionUniverse : AddThought(pos)

SpecAlloc == AllocInit /\ [][AllocNext]_vars

\* --------------------------------------- slot -> stored position -> index
\* islands on which round trips are run
MaxIsland == 8

RoundTripInit ==
  /\ GardenIdle
  /\ AllocIdle
  /\ AsyncIdle
  /\ WaterIdle
  /\ CameraIdle
  /\ LayoutIdle
  /\ ServiceIdle
  /\ TokenIdle
  /\ rtInput \in
       { [kind |-> "hook", islandIndex |-> i, slotIndex |-> sl] :
           i \in 0..MaxIsland, sl \in 0..(SLOTS_PER_ISLAND - 1) }
       \cup
       { [kind |-> "app", islandIndex |-> i, slotIndex |-> sl] :
           i \in 0..MaxIsland, sl \in 0..(App_SLOTS_PER_ISLAND - 1) }
  /\ rtPosition = NotCalled
  /\ rtIndex = NotCalled

\* the slot is converted to the position stored on a thought
ConvertToStored ==
  /\ rtPosition = NotCalled
  /\ rtPosition' =
       IF rtInput.kind = "hook"
       THEN slotToPosition(
              [islandIndex |-> rtInput.islandIndex,
               slotIndex   |-> rtInput.slotIndex,
               globalIndex |-> rtInput.islandIndex * SLOTS_PER_ISLAND
                                 + rtInput.slotIndex])
       ELSE App_indexToPosition(
              rtInput.islandIndex * App_SLOTS_PER_ISLAND + rtInput.slotIndex)
  /\ UNCHANGED << rtInput, rtIndex >>
  /\ UNCHANGED << gardenVars, allocVars, asyncVars, waterVars, cameraVars,
    layoutVars,
    serviceVars,
    tokenVars >>

\* the stored position is looked up again
LookUpStored ==
  /\ rtPosition # NotCalled
  /\ rtIndex = NotCalled
  /\ rtIndex' = [value |-> IF rtInput.kind = "hook"
                            THEN positionToGlobalIndex(rtPosition)
                            ELSE App_globalIndexOf(rtPosition)]
  /\ UNCHANGED << rtInput, rtPosition >>
  /\ UNCHANGED << gardenVars, allocVars, asyncVars, waterVars, cameraVars,
    layoutVars,
    serviceVars,
    tokenVars >>

RoundTripNext == ConvertToStored \/ LookUpStored

SpecRoundTrip == RoundTripInit /\ [][RoundTripNext]_vars

\* ------------------------------- the app garden, handlers suspended at awaits
AsyncInit ==
  /\ variant = "app"
  /\ storage = << >>
  /\ gardenThoughts = << >>
  /\ islandCount = 1
  /\ clock = 0
  /\ deletes = 0
  /\ lastOp = "none"
  /\ afterDelete = FALSE
  /\ lastDeleted = NoThought
  /\ lastPlanted = NoThought
  /\ firstSlot = NotCalled
  /\ retrySlot = NotCalled
  /\ AllocIdle
  /\ RoundTripIdle
  /\ AsyncIdle
  /\ WaterIdle
  /\ CameraIdle
  /\ LayoutIdle
  /\ ServiceIdle
  /\ TokenIdle

asyncFrame == << variant, islandCount, lastOp, afterDelete, lastDeleted,
                 lastPlanted, firstSlot, retrySlot, allocVars, rtVars,
                 waterVars, cameraVars,
    layoutVars,
    serviceVars,
    tokenVars >>

\* the form that submits whether or not a plant is loading
CanSubmit_always == TRUE

\* PlantingModal.handleSubmit: the form has text; it calls onPlant only when
\* no plant is loading
CanSubmit == ~isLoading

\* handleSubmit accepts: handlePlant runs up to its first await
SubmitPlant(p) ==
  /\ plantPc[p] = "idle"
  /\ submits < MaxSubmits
  /\ CanSubmit
  /\ isLoading' = TRUE
  /\ plantClosure' = [plantClosure EXCEPT ![p] = gardenThoughts]
  /\ plantCard' = [plantCard EXCEPT ![p] = NoThought]
  /\ plantPc' = [plantPc EXCEPT ![p] = "generating"]
  /\ submits' = submits + 1
  /\ UNCHANGED << storage, gardenThoughts, clock, deletes, plantRead, refused,
                  delPc, delId, delRead >>
  /\ UNCHANGED asyncFrame

\* handleSubmit drops the submission
SubmitRefused ==
  /\ ~CanSubmit
  /\ ~refused
  /\ refused' = TRUE
  /\ UNCHANGED << storage, gardenThoughts, clock, deletes, isLoading, plantPc,
                  plantClosure, plantCard, plantRead, submits, delPc, delId,
                  delRead >>
  /\ UNCHANGED asyncFrame

\* a catch block that leaves the card that was built in the garden's list
PlantFailed_cardKept(p) ==
  /\ isLoading' = FALSE
  /\ plantPc' = [plantPc EXCEPT ![p] = "idle"]
  /\ gardenThoughts' = IF plantCard[p] = NoThought THEN gardenThoughts
                       ELSE Append(gardenThoughts, plantCard[p])
  /\ UNCHANGED << storage, clock, deletes, plantClosure,
                  plantCard, plantRead, submits, refused, delPc, delId, delRead >>
  /\ UNCHANGED asyncFrame

\* catch and finally of handlePlant
PlantFailed(p) ==
  /\ isLoading' = FALSE
  /\ plantPc' = [plantPc EXCEPT ![p] = "idle"]
  /\ UNCHANGED << storage, gardenThoughts, clock, deletes, plantClosure,
                  plantCard, plantRead, submits, refused, delPc, delId, delRead >>
  /\ UNCHANGED asyncFrame

\* generateMindGardenContent resolved: the position is computed from the
\* captured list, the card is built, saveThought starts
GenerateOk(p) ==
  /\ plantPc[p] = "generating"
  /\ LET position == getNextAvailablePosition(plantClosure[p])
     IN plantCard' = [plantCard EXCEPT ![p] = NewCard(clock + 1, position)]
  /\ clock' = clock + 1
  /\ plantPc' = [plantPc EXCEPT ![p] = "saveRead"]
  /\ UNCHANGED << storage, gardenThoughts, deletes, isLoading, plantClosure,
                  plantRead, submits, refused, delPc, delId, delRead >>
  /\ UNCHANGED asyncFrame

\* generateMindGardenContent rejected
GenerateFail(p) ==
  /\ plantPc[p] = "generating"
  /\ PlantFailed(p)

\* saveThought: await getThoughts()
SaveRead(p) ==
  /\ plantPc[p] = "saveRead"
  /\ plantRead' = [plantRead EXCEPT ![p] = storage]
  /\ plantPc' = [plantPc EXCEPT ![p] = "saveWrite"]
  /\ UNCHANGED << storage, gardenThoughts, clock, deletes, isLoading,
                  plantClosure, plantCard, submits, refused, delPc, delId,
                  delRead >>
  /\ UNCHANGED asyncFrame

\* saveThought: await set(STORAGE_KEY, updated)
SaveWrite(p) ==
  /\ plantPc[p] = "saveWrite"
  /\ storage' = SavedList(plantRead[p], plantCard[p])
  /\ plantPc' = [plantPc EXCEPT ![p] = "refreshRead"]
  /\ UNCHANGED << gardenThoughts, clock, deletes, isLoading, plantClosure,
                  plantCard, plantRead, submits, refused, delPc, delId, delRead >>
  /\ UNCHANGED asyncFrame

\* the write of saveThought rejected
SaveFail(p) ==
  /\ plantPc[p] = "saveWrite"
  /\ PlantFailed(p)

\* refreshGarden: await getThoughts()
PlantRefreshRead(p) ==
  /\ plantPc[p] = "refreshRead"
  /\ plantRead' = [plantRead EXCEPT ![p] = storage]
  /\ plantPc' = [plantPc EXCEPT ![p] = "finish"]
  /\ UNCHANGED << storage, gardenThoughts, clock, deletes, isLoading,
                  plantClosure, plantCard, submits, refused, delPc, delId,
                  delRead >>
  /\ UNCHANGED asyncFrame

\* setGardenThoughts, then the rest of handlePlant and its finally
PlantFinish(p) ==
  /\ plantPc[p] = "finish"
  /\ gardenThoughts' = Refreshed(plantRead[p])
  /\ isLoading' = FALSE
  /\ plantPc' = [plantPc EXCEPT ![p] = "idle"]
  /\ UNCHANGED << storage, clock, deletes, plantClosure, plantCard, plantRead,
                  submits, refused, delPc, delId, delRead >>
  /\ UNCHANGED asyncFrame

\* handleDelete, confirmed: deleteThought starts with await getThoughts()
DeleteStart(k) ==
  /\ delPc = "idle"
  /\ deletes < MaxDeletes
  /\ k \in 1..Len(gardenThoughts)
  /\ delId' = gardenThoughts[k].id
  /\ delPc' = "read"
  /\ deletes' = deletes + 1
  /\ UNCHANGED << storage, gardenThoughts, clock, isLoading, plantPc,
                  plantClosure, plantCard, plantRead, submits, refused, delRead >>
  /\ UNCHANGED asyncFrame

DeleteRead ==
  /\ delPc = "read"
  /\ delRead' = storage
  /\ delPc' = "write"
  /\ UNCHANGED << storage, gardenThoughts, clock, deletes, isLoading, plantPc,
                  plantClosure, plantCard, plantRead, submits, refused, delId >>
  /\ UNCHANGED asyncFrame

\* deleteThought: await set(STORAGE_KEY, updated)
DeleteWrite ==
  /\ delPc = "write"
  /\ storage' = DeletedList(delRead, delId)
  /\ delPc' = "refreshRead"
  /\ UNCHANGED << gardenThoughts, clock, deletes, isLoading, plantPc,
                  plantClosure, plantCard, plantRead, submits, refused, delId,
                  delRead >>
  /\ UNCHANGED asyncFrame

\* refreshGarden: await getThoughts()
DeleteRefreshRead ==
  /\ delPc = "refreshRead"
  /\ delRead' = storage
  /\ delPc' = "finish"
  /\ UNCHANGED << storage, gardenThoughts, clock, deletes, isLoading, plantPc,
                  plantClosure, plantCard, plantRead, submits, refused, delId >>
  /\ UNCHANGED asyncFrame

\* setGardenThoughts and the rest of handleDelete
DeleteFinish ==
  /\ delPc = "finish"
  /\ gardenThoughts' = Refreshed(delRead)
  /\ delPc' = "idle"
  /\ UNCHANGED << storage, clock, deletes, isLoading, plantPc, plantClosure,
                  plantCard, plantRead, submits, refused, delId, delRead >>
  /\ UNCHANGED asyncFrame

AsyncNext ==
  \/ \E p \in Plants : SubmitPlant(p)
  \/ SubmitRefused
  \/ \E p \in Plants : GenerateOk(p)
  \/ \E p \in Plants : GenerateFail(p)
  \/ \E p \in Plants : SaveRead(p)
  \/ \E p \in Plants : SaveWrite(p)
  \/ \E p \in Plants : SaveFail(p)
  \/ \E p \in Plants : PlantRefreshRead(p)
  \/ \E p \in Plants : PlantFinish(p)
  \/ \E k \in 1..MaxSubmits : DeleteStart(k)
  \/ DeleteRead
  \/ DeleteWrite
  \/ DeleteRefreshRead
  \/ DeleteFinish

SpecAsync == AsyncInit /\ [][AsyncNext]_vars

\* ------------------------------------- the watered garden: plant, water, delete
GrowthStage == {"seed", "sprout", "bloom", "fruit"}

WaterInit ==
  /\ variant \in {"app", "konva"}
  /\ storage = << >>
  /\ gardenThoughts = << >>
  /\ islandCount = 1
  /\ clock = 0
  /\ deletes = 0
  /\ lastOp = "none"
  /\ afterDelete = FALSE
  /\ lastDeleted = NoThought
  /\ lastPlanted = NoThought
  /\ firstSlot = NotCalled
  /\ retrySlot = NotCalled
  /\ AllocIdle
  /\ RoundTripIdle
  /\ AsyncIdle
  /\ WaterIdle
  /\ CameraIdle
  /\ LayoutIdle
  /\ ServiceIdle
  /\ TokenIdle

\* plants and deletes run to completion between the awaits of a watering
waterFrame == << variant, islandCount, clock, deletes, lastOp, afterDelete,
                 lastDeleted, lastPlanted, firstSlot, retrySlot, allocVars,
                 rtVars, asyncVars, cameraVars,
    layoutVars,
    serviceVars,
    tokenVars >>

\* a watering that plants the thought anew at the origin
updatedThought_replanted(thought, newStage) ==
  [NewCard(thought.id, [x |-> 0, y |-> 0]) EXCEPT !.growthStage = newStage]

\* an updated thought whose new entry goes to the end of the update log
updatedThought_appended(thought, newStage) ==
  [thought EXCEPT
     !.growthStage = newStage,
     !.updates = @ \o << [previousStage |-> thought.growthStage,
                          newStage |-> newStage] >>]

\* handleWater: the thought it saves is the thought it was called with, with
\* the new stage and one more entry at the front of the update log
updatedThought(thought, newStage) ==
  [thought EXCEPT
     !.growthStage = newStage,
     !.updates = << [previousStage |-> thought.growthStage,
                     newStage |-> newStage] >> \o @]

\* a reflection modal that shows the water form at every stage
waterFormShown_atEveryStage(thought) == TRUE

\* the reflection modal renders the water form only for a thought that is
\* not fruit
waterFormShown(thought) == thought.growthStage # "fruit"

\* the water form of the reflection modal is shown for a thought that is not
\* fruit and submits when no watering is in progress; handleWater runs up to
\* its first await
WaterSubmit(k) ==
  /\ watPc = "idle"
  /\ waters < MaxWaters
  /\ k \in 1..Len(gardenThoughts)
  /\ waterFormShown(gardenThoughts[k])
  /\ watThought' = gardenThoughts[k]
  /\ watCard' = NoThought
  /\ watPc' = "watering"
  /\ waters' = waters + 1
  /\ UNCHANGED << storage, gardenThoughts, watRead >>
  /\ UNCHANGED waterFrame

\* waterMindGardenThought resolved with a stage of its response schema: the
\* updated thought is built, saveThought starts
WaterOk(newStage) ==
  /\ watPc = "watering"
  /\ watCard' = updatedThought(watThought, newStage)
  /\ watPc' = "saveRead"
  /\ UNCHANGED << storage, gardenThoughts, watThought, watRead, waters >>
  /\ UNCHANGED waterFrame

\* waterMindGardenThought or the write of saveThought rejected: the catch of
\* handleWater; the invocation and what it held are gone
WaterFail ==
  /\ watPc \in {"watering", "saveWrite"}
  /\ watPc' = "idle"
  /\ watThought' = NoThought
  /\ watCard' = NoThought
  /\ watRead' = << >>
  /\ UNCHANGED << storage, gardenThoughts, waters >>
  /\ UNCHANGED waterFrame

\* saveThought: await getThoughts()
WaterSaveRead ==
  /\ watPc = "saveRead"
  /\ watRead' = storage
  /\ watPc' = "saveWrite"
  /\ UNCHANGED << storage, gardenThoughts, watThought, watCard, waters >>
  /\ UNCHANGED waterFrame

\* saveThought: await set(STORAGE_KEY, updated)
WaterSaveWrite ==
  /\ watPc = "saveWrite"
  /\ storage' = SavedList(watRead, watCard)
  /\ watPc' = "refreshRead"
  /\ UNCHANGED << gardenThoughts, watThought, watCard, watRead, waters >>
  /\ UNCHANGED waterFrame

\* refreshGarden: await getThoughts()
WaterRefreshRead ==
  /\ watPc = "refreshRead"
  /\ watRead' = storage
  /\ watPc' = "finish"
  /\ UNCHANGED << storage, gardenThoughts, watThought, watCard, waters >>
  /\ UNCHANGED waterFrame

\* setGardenThoughts and the rest of handleWater
WaterFinish ==
  /\ watPc = "finish"
  /\ gardenThoughts' = Refreshed(watRead)
  /\ watPc' = "idle"
  /\ watThought' = NoThought
  /\ watCard' = NoThought
  /\ watRead' = << >>
  /\ UNCHANGED << storage, waters >>
  /\ UNCHANGED waterFrame

WaterNext ==
  \/ \E k \in 1..MaxWaterPlants : WaterSubmit(k)
  \/ \E newStage \in GrowthStage : WaterOk(newStage)
  \/ WaterFail
  \/ WaterSaveRead
  \/ WaterSaveWrite
  \/ WaterRefreshRead
  \/ WaterFinish
  \/ (clock < MaxWaterPlants /\ handlePlant)
  \/ (clock < MaxWaterPlants /\ plantWithExpansion)
  \/ \E k \in 1..MaxWaterPlants : handleDelete(k)

SpecWater == WaterInit /\ [][WaterNext]_vars

\* ------------------------------------------------ the camera of the konva garden
\* window sizes at mount (the window can be hidden: zero wide or 64 high) and
\* container sizes measured later
WindowSizes ==
  { [width |-> Px(1200), height |-> Px(800)],
    [width |-> Px(200), height |-> Px(150)],
    [width |-> 0, height |-> Px(700)] }

StageSizes == { [width |-> Px(1000), height |-> Px(700)] }

\* positions a pointer or wheel event can carry
Pointers ==
  { [x |-> Px(100), y |-> Px(100)], [x |-> Px(400), y |-> Px(300)] }

CameraInit ==
  /\ variant = "konva"
  /\ storage = << >>
  /\ gardenThoughts = << >>
  /\ islandCount \in 1..2
  /\ clock = 0
  /\ deletes = 0
  /\ lastOp = "none"
  /\ afterDelete = FALSE
  /\ lastDeleted = NoThought
  /\ lastPlanted = NoThought
  /\ firstSlot = NotCalled
  /\ retrySlot = NotCalled
  /\ AllocIdle
  /\ RoundTripIdle
  /\ AsyncIdle
  /\ WaterIdle
  /\ LayoutIdle
  /\ ServiceIdle
  /\ TokenIdle
  /\ camera = [scale |-> NativeScale, x |-> 0, y |-> 0]
  /\ stage = camera
  /\ stageSize \in WindowSizes
  /\ initialized = FALSE
  /\ prevIslandCount = islandCount
  /\ isPanning = FALSE
  /\ panStart = [x |-> 0, y |-> 0]
  /\ animRef = NoTween
  /\ tweens = {}
  /\ started = 0
  /\ events = 0
  /\ lastEvent = [kind |-> "none"]

cameraFrame == << variant, storage, gardenThoughts, clock, deletes, lastOp,
                  afterDelete, lastDeleted, lastPlanted, firstSlot, retrySlot,
                  allocVars, rtVars, asyncVars, waterVars,
    layoutVars,
    serviceVars,
    tokenVars >>

\* the initial fit effect, on mount: the camera is set to the fit of the
\* world in the stage size of the first render
InitialFit ==
  /\ ~initialized
  /\ initialized' = TRUE
  /\ LET fit == fitCamera(stageSize, getWorldSize(islandCount))
     IN /\ camera' = fit
        /\ stage' = Rendered(stage, camera, fit)
  /\ lastEvent' = [kind |-> "fit"]
  /\ UNCHANGED << islandCount, stageSize, prevIslandCount, isPanning, panStart,
                  animRef, tweens, started, events >>
  /\ UNCHANGED cameraFrame

\* a wheel handler that also ends the pan in progress
handleWheel_endsPan(pointer, direction) ==
  /\ initialized
  /\ LET newCamera == wheelCamera(stage, pointer, direction)
     IN /\ camera' = newCamera
        /\ stage' = Rendered(stage, camera, newCamera)
  /\ events' = events + 1
  /\ lastEvent' = [kind |-> "wheel", pointer |-> pointer,
                   direction |-> direction, node |-> stage]
  /\ isPanning' = FALSE
  /\ UNCHANGED << islandCount, stageSize, initialized, prevIslandCount,
                  panStart, animRef, tweens, started >>
  /\ UNCHANGED cameraFrame

\* handleWheel; Konva sets the stage's pointer position before it fires wheel
handleWheel(pointer, direction) ==
  /\ initialized
  /\ LET newCamera == wheelCamera(stage, pointer, direction)
     IN /\ camera' = newCamera
        /\ stage' = Rendered(stage, camera, newCamera)
  /\ events' = events + 1
  /\ lastEvent' = [kind |-> "wheel", pointer |-> pointer,
                   direction |-> direction, node |-> stage]
  /\ UNCHANGED << islandCount, stageSize, initialized, prevIslandCount,
                  isPanning, panStart, animRef, tweens, started >>
  /\ UNCHANGED cameraFrame

\* a pointer-down that starts a pan whatever it hits
startsPan_anyTarget(target) == TRUE

\* handlePointerDown returns early unless e.target is the stage itself; target
\* is "stage" for the background and "shape" for a thought marker
startsPan(target) == target = "stage"

handlePointerDown(target, client) ==
  /\ initialized
  /\ IF startsPan(target)
     THEN /\ isPanning' = TRUE
          /\ panStart' = [x |-> client.x - stage.x, y |-> client.y - stage.y]
     ELSE UNCHANGED << isPanning, panStart >>
  /\ events' = events + 1
  /\ lastEvent' = [kind |-> "down", target |-> target, client |-> client]
  /\ UNCHANGED << islandCount, camera, stage, stageSize, initialized,
                  prevIslandCount, animRef, tweens, started >>
  /\ UNCHANGED cameraFrame

\* a pan that adds the pointer's position to the camera instead of replacing it,
\* and snaps the scale back to 1
handlePointerMove_drifting(client) ==
  /\ initialized
  /\ IF isPanning
     THEN LET newCamera == [camera EXCEPT !.x = camera.x + client.x - panStart.x,
                                          !.y = camera.y + client.y - panStart.y,
                                          !.scale = ScaleUnit]
          IN /\ camera' = newCamera
             /\ stage' = Rendered(stage, camera, newCamera)
     ELSE UNCHANGED << camera, stage >>
  /\ events' = events + 1
  /\ lastEvent' = [kind |-> "move", client |-> client]
  /\ UNCHANGED << islandCount, stageSize, initialized, prevIslandCount,
                  isPanning, panStart, animRef, tweens, started >>
  /\ UNCHANGED cameraFrame

handlePointerMove(client) ==
  /\ initialized
  /\ IF isPanning
     THEN LET newCamera == [camera EXCEPT !.x = client.x - panStart.x,
                                          !.y = client.y - panStart.y]
          IN /\ camera' = newCamera
             /\ stage' = Rendered(stage, camera, newCamera)
     ELSE UNCHANGED << camera, stage >>
  /\ events' = events + 1
  /\ lastEvent' = [kind |-> "move", client |-> client]
  /\ UNCHANGED << islandCount, stageSize, initialized, prevIslandCount,
                  isPanning, panStart, animRef, tweens, started >>
  /\ UNCHANGED cameraFrame

\* handlePointerUp, wired to onPointerUp and to onPointerLeave
handlePointerUp(kind) ==
  /\ initialized
  /\ isPanning' = FALSE
  /\ events' = events + 1
  /\ lastEvent' = [kind |-> kind]
  /\ UNCHANGED << islandCount, camera, stage, stageSize, initialized,
                  prevIslandCount, panStart, animRef, tweens, started >>
  /\ UNCHANGED cameraFrame

\* animateZoomOut, called with the stage mounted: the tween animRef holds is
\* destroyed, a new tween from the node's attributes to the target is created,
\* stored in animRef and played
animateZoomOut(target) ==
  /\ tweens' = AfterDestroy(tweens, animRef)
                 \cup { [id |-> started + 1, from |-> stage, to |-> target,
                         frame |-> 0] }
  /\ animRef' = started + 1
  /\ started' = started + 1
  /\ UNCHANGED << camera, stage >>

\* an auto-expand effect that animates on every change of the island count
expands_onAnyChange(count, prev) ==
  count # prev

\* the auto-expand effect returns early when islandCount <= the count it saw
\* on its previous run
expands(count, prev) ==
  ~(count <= prev)

\* the island count prop changes: the auto-expand effect runs
IslandCountChanged(n) ==
  /\ initialized
  /\ n # islandCount
  /\ islandCount' = n
  /\ prevIslandCount' = n
  /\ IF expands(n, prevIslandCount)
     THEN animateZoomOut(fitCamera(stageSize, getWorldSize(n)))
     ELSE UNCHANGED << camera, stage, animRef, tweens, started >>
  /\ events' = events + 1
  /\ lastEvent' = [kind |-> "count", from |-> islandCount, to |-> n,
                   replaced |-> IF expands(n, prevIslandCount)
                                THEN animRef ELSE NoTween]
  /\ UNCHANGED << stageSize, initialized, isPanning, panStart >>
  /\ UNCHANGED cameraFrame

\* the container is measured or resized: both effects run again and return
Resize(size) ==
  /\ initialized
  /\ size # stageSize
  /\ stageSize' = size
  /\ prevIslandCount' = islandCount
  /\ events' = events + 1
  /\ lastEvent' = [kind |-> "resize"]
  /\ UNCHANGED << islandCount, camera, stage, initialized, isPanning, panStart,
                  animRef, tweens, started >>
  /\ UNCHANGED cameraFrame

\* an onFinish that syncs the camera with where the tween started
finishedCamera_startValues(tw) == tw.from

\* onFinish: the camera is set to the target the tween was created with
finishedCamera(tw) == tw.to

\* an animation frame of a playing tween; its last frame calls onFinish
TweenFrame(tw) ==
  /\ tw \in tweens
  /\ LET k == tw.frame + 1
     IN IF k < TweenFrames
        THEN /\ stage' = TweenAt(tw, k)
             /\ tweens' = (tweens \ {tw}) \cup { [tw EXCEPT !.frame = k] }
             /\ lastEvent' = [kind |-> "frame", id |-> tw.id]
             /\ UNCHANGED << camera, animRef >>
        ELSE /\ camera' = finishedCamera(tw)
             /\ stage' = Rendered(TweenAt(tw, k), camera, finishedCamera(tw))
             /\ tweens' = tweens \ {tw}
             /\ animRef' = NoTween
             /\ lastEvent' = [kind |-> "finish", id |-> tw.id, to |-> tw.to]
  /\ UNCHANGED << islandCount, stageSize, initialized, prevIslandCount,
                  isPanning, panStart, started, events >>
  /\ UNCHANGED cameraFrame

CameraNext ==
  \/ InitialFit
  \/ (events < MaxEvents
        /\ \E pointer \in Pointers, direction \in {1, -1} :
             handleWheel(pointer, direction))
  \/ (events < MaxEvents
        /\ \E target \in {"stage", "shape"}, client \in Pointers :
             handlePointerDown(target, client))
  \/ (events < MaxEvents
        /\ \E client \in Pointers : handlePointerMove(client))
  \/ (events < MaxEvents
        /\ \E kind \in {"up", "leave"} : handlePointerUp(kind))
  \/ (events < MaxEvents
        /\ \E n \in 1..MaxIslandCount : IslandCountChanged(n))
  \/ (events < MaxEvents /\ \E size \in StageSizes : Resize(size))
  \/ \E tw \in tweens : TweenFrame(tw)

SpecCamera == CameraInit /\ [][CameraNext]_vars

\* the browser keeps delivering animation frames to a playing tween
SpecCameraFair == SpecCamera /\ WF_vars(\E tw \in tweens : TweenFrame(tw))

\* one wheel event handled and rendered: the node it read, the camera it set
\* and the node once that camera is rendered
WheeledOnce(view, pointer, direction) ==
  LET node == view.stage
      newCamera == wheelCamera(node, pointer, direction)
  IN [node |-> node,
      camera |-> newCamera,
      stage |-> Rendered(node, view.camera, newCamera)]

\* the camera and the stage node after k more wheel events at one pointer
\* position in one direction, each handled and rendered before the next
RECURSIVE Wheeled(_, _, _, _)
Wheeled(view, pointer, direction, k) ==
  IF k = 0
  THEN view
  ELSE WheeledOnce(Wheeled(view, pointer, direction, k - 1), pointer, direction)

\* a scroll gesture: k wheel events with nothing handled in between
WheelBurst(pointer, direction, k) ==
  /\ initialized
  /\ LET view == Wheeled([camera |-> camera, stage |-> stage, node |-> stage],
                         pointer, direction, k)
     IN /\ camera' = view.camera
        /\ stage' = view.stage
        /\ lastEvent' = [kind |-> "wheel", pointer |-> pointer,
                         direction |-> direction, node |-> view.node]
  /\ events' = events + 1
  /\ UNCHANGED << islandCount, stageSize, initialized, prevIslandCount,
                  isPanning, panStart, animRef, tweens, started >>
  /\ UNCHANGED cameraFrame

\* the pointer position of the scroll gestures
BurstPointer == [x |-> Px(400), y |-> Px(300)]

ZoomNext ==
  \/ CameraNext
  \/ (events < MaxEvents
        /\ \E direction \in {1, -1}, k \in (MaxBurst - 1)..MaxBurst :
             WheelBurst(BurstPointer, direction, k))

\* the camera with scroll gestures among its events
SpecZoom == CameraInit /\ [][ZoomNext]_vars

\* ------------------------------------------- layout functions on drawn inputs
\* stored positions on the first two islands, in steps of 1/Res percent
LookupPositions ==
  { [x |-> x, y |-> y] : x \in 0..(2 * Hundred - 1), y \in 0..Hundred }

LayoutInit ==
  /\ GardenIdle
  /\ AllocIdle
  /\ RoundTripIdle
  /\ AsyncIdle
  /\ WaterIdle
  /\ CameraIdle
  /\ ServiceIdle
  /\ TokenIdle
  /\ layInput \in
       { [kind |-> "origin", islandIndex |-> k] : k \in 0..MaxIsland }
       \cup
       { [kind |-> "world", islandCount |-> n] : n \in 0..MaxIsland }
       \cup
       { [kind |-> "position", generation |-> g, position |-> pos] :
           g \in {"hook", "app"}, pos \in LookupPositions }
  /\ layOutput = NotCalled

layoutFrame == << gardenVars, allocVars, rtVars, asyncVars, waterVars,
                 cameraVars,
    serviceVars,
    tokenVars >>

\* getIslandOrigin is called for an island and for the island after it
OriginsComputed ==
  /\ layInput.kind = "origin"
  /\ layOutput = NotCalled
  /\ layOutput' = [origin |-> getIslandOrigin(layInput.islandIndex),
                   next |-> getIslandOrigin(layInput.islandIndex + 1)]
  /\ UNCHANGED layInput
  /\ UNCHANGED layoutFrame

\* useIslandLayout runs for an island count
LayoutComputed ==
  /\ layInput.kind = "world"
  /\ layOutput = NotCalled
  /\ layOutput' = [world |-> getWorldSize(layInput.islandCount),
                   islands |-> islands(layInput.islandCount)]
  /\ UNCHANGED layInput
  /\ UNCHANGED layoutFrame

\* a stored position is looked up in the slot table of its generation
PositionLookedUp ==
  /\ layInput.kind = "position"
  /\ layOutput = NotCalled
  /\ layOutput' = [value |-> IF layInput.generation = "hook"
                              THEN positionToGlobalIndex(layInput.position)
                              ELSE App_globalIndexOf(layInput.position)]
  /\ UNCHANGED layInput
  /\ UNCHANGED layoutFrame

LayoutNext == OriginsComputed \/ LayoutComputed \/ PositionLookedUp

SpecLayout == LayoutInit /\ [][LayoutNext]_vars

\* ------------------------------------------------ geminiService: callWithRetry
\* the two copies of the service: services/geminiService.ts and the later one
Services == {"services", "part_007"}

\* errors a call of the model can reject with; a message is modelled by the
\* substring tests it passes
NoStatus == 0

Errors ==
  { [status |-> 503, code |-> NoStatus, message |-> "other"],
    [status |-> NoStatus, code |-> 503, message |-> "other"],
    [status |-> NoStatus, code |-> NoStatus, message |-> "overloaded"],
    [status |-> NoStatus, code |-> NoStatus, message |-> "503"],
    [status |-> NoStatus, code |-> NoStatus, message |-> "other"] }

\* the rejection of the timeout promise of the later copy
TimeoutError ==
  [status |-> NoStatus, code |-> NoStatus, message |-> "taking a moment"]

\* the default values of the retries and delay parameters; every caller uses
\* them
DefaultRetries(copy) == IF copy = "services" THEN 3 ELSE 2

DefaultDelay(copy) == IF copy = "services" THEN 2000 ELSE 1000

\* isOverloaded of the catch block
isOverloaded(copy, error) ==
  \/ error.status = 503
  \/ error.code = 503
  \/ error.message = "overloaded"
  \/ (copy = "services" /\ error.message = "503")

RetryInit ==
  /\ GardenIdle
  /\ AllocIdle
  /\ RoundTripIdle
  /\ AsyncIdle
  /\ WaterIdle
  /\ CameraIdle
  /\ LayoutIdle
  /\ service \in Services
  /\ retriesLeft = DefaultRetries(service)
  /\ delay = DefaultDelay(service)
  /\ attempts = 0
  /\ waits = << >>
  /\ caught = << >>
  /\ callPc = "call"
  /\ svcInput = NotCalled
  /\ svcOutput = NotCalled
  /\ TokenIdle

retryFrame == << gardenVars, allocVars, rtVars, asyncVars, waterVars,
                cameraVars, layoutVars, service, svcInput, svcOutput, tokenVars >>

\* the catch block: wait and call again after an overload error while retries
\* are left, rethrow otherwise
Caught(error) ==
  /\ caught' = Append(caught, error)
  /\ callPc' = IF retriesLeft > 0 /\ isOverloaded(service, error)
               THEN "waiting"
               ELSE "thrown"

\* fn is called and resolves
AttemptResolves ==
  /\ callPc = "call"
  /\ attempts' = attempts + 1
  /\ callPc' = "returned"
  /\ UNCHANGED << retriesLeft, delay, waits, caught >>
  /\ UNCHANGED retryFrame

\* fn is called and rejects
AttemptRejects(error) ==
  /\ callPc = "call"
  /\ attempts' = attempts + 1
  /\ Caught(error)
  /\ UNCHANGED << retriesLeft, delay, waits >>
  /\ UNCHANGED retryFrame

\* fn is called and never settles: the later copy races it against a timeout
\* that rejects, the copy in services awaits it for ever
AttemptHangs ==
  /\ callPc = "call"
  /\ attempts' = attempts + 1
  /\ IF service = "part_007"
     THEN Caught(TimeoutError)
     ELSE callPc' = "pending" /\ UNCHANGED caught
  /\ UNCHANGED << retriesLeft, delay, waits >>
  /\ UNCHANGED retryFrame

\* the delay has passed: callWithRetry(fn, retries - 1, delay * 2)
RetryAfterDelay ==
  /\ callPc = "waiting"
  /\ waits' = Append(waits, delay)
  /\ retriesLeft' = retriesLeft - 1
  /\ delay' = delay * 2
  /\ callPc' = "call"
  /\ UNCHANGED << attempts, caught >>
  /\ UNCHANGED retryFrame

RetryNext ==
  \/ AttemptResolves
  \/ \E error \in Errors : AttemptRejects(error)
  \/ AttemptHangs
  \/ RetryAfterDelay

SpecRetry == RetryInit /\ [][RetryNext]_vars

\* --------------------------- geminiService and App: content, music and images
\* what one call of the image model can do: return image data, return a
\* response without image data, or reject (callWithRetry has thrown)
ImageOutcomes == {"image", "noData", "rejects"}

FallbackUrl == "picsum"

\* generateSymbolicImage of the copy in services returns the fallback url for a
\* response without data; generateBotanyImage of the later copy throws then
generateImage(copy, outcome) ==
  CASE outcome = "rejects" -> "thrown"
    [] outcome = "noData" -> IF copy = "services" THEN FallbackUrl ELSE "thrown"
    [] OTHER -> "generated"

thrownResult ==
  [outcome |-> "thrown", imageUrl |-> "undefined", songSuggestion |-> "undefined",
   newStage |-> "undefined", newImageUrl |-> "undefined"]

\* generateMindGardenContent: the analysis, then the image; the later copy
\* catches the image's error and returns the analysis' song suggestion
generateMindGardenContent(copy, analysis, image, suggestion) ==
  LET url == generateImage(copy, image)
  IN  IF analysis = "rejects"
      THEN thrownResult
      ELSE IF copy = "services"
      THEN IF url = "thrown"
           THEN thrownResult
           ELSE [thrownResult EXCEPT !.outcome = "returned", !.imageUrl = url]
      ELSE [thrownResult EXCEPT !.outcome = "returned",
                                !.imageUrl = IF url = "thrown" THEN FallbackUrl ELSE url,
                                !.songSuggestion = suggestion]

\* the stage after a stage in stageOrder of the later copy
nextStage(growthStage) ==
  CASE growthStage = "seed" -> "sprout"
    [] growthStage = "sprout" -> "bloom"
    [] OTHER -> "fruit"

\* waterMindGardenThought: the text model's answer; the later copy forces the
\* next stage when the answer repeats the stage, and generates an image for a
\* changed stage, first with the reference image, then without
waterMindGardenThought(copy, growthStage, text, aiStage, image, image2) ==
  LET forced == IF aiStage = growthStage /\ growthStage # "fruit"
                THEN nextStage(growthStage)
                ELSE aiStage
      first == generateImage(copy, image)
      second == generateImage(copy, image2)
  IN  IF text = "rejects"
      THEN thrownResult
      ELSE IF copy = "services"
      THEN [thrownResult EXCEPT !.outcome = "returned", !.newStage = aiStage]
      ELSE [thrownResult EXCEPT
              !.outcome = "returned",
              !.newStage = forced,
              !.newImageUrl = IF forced = growthStage THEN "undefined"
                              ELSE IF first # "thrown" THEN first
                              ELSE IF second # "thrown" THEN second
                              ELSE "undefined"]

\* searchTrack: null without credentials (getSpotifyAccessToken throws inside
\* the try), for a response that is not ok, without tracks, and for any error
searchTrack(credentials, search) ==
  IF credentials /\ search = "track" THEN "track" ELSE "null"

\* the music lookup of handlePlant: musicRecommendation || undefined
lookupMusic_rethrows(songSuggestion, credentials, search) ==
  IF songSuggestion = "undefined" THEN "undefined"
  ELSE IF searchTrack(credentials, search) = "null" THEN "thrown"
  ELSE searchTrack(credentials, search)

lookupMusic(songSuggestion, credentials, search) ==
  IF songSuggestion = "undefined" THEN "undefined"
  ELSE IF searchTrack(credentials, search) = "null" THEN "undefined"
  ELSE searchTrack(credentials, search)

\* the image kept by handleWater: result.newImageUrl || thought.imageUrl
keptImage(newImageUrl, imageUrl) ==
  IF newImageUrl = "undefined" THEN imageUrl ELSE newImageUrl

PlantInputs ==
  [op : {"plant"}, analysis : {"ok", "rejects"}, image : ImageOutcomes,
   songSuggestion : {"undefined", "query"}, credentials : BOOLEAN,
   search : {"track", "notOk", "noTracks", "throws"}]

WaterInputs ==
  [op : {"water"}, growthStage : GrowthStage, imageUrl : {"seedImage"},
   text : {"ok", "rejects"}, aiStage : GrowthStage,
   image : ImageOutcomes, image2 : ImageOutcomes]

NoCard == [imageUrl |-> "undefined", growthStage |-> "undefined", music |-> "undefined"]

ContentInit ==
  /\ GardenIdle
  /\ AllocIdle
  /\ RoundTripIdle
  /\ AsyncIdle
  /\ WaterIdle
  /\ CameraIdle
  /\ LayoutIdle
  /\ service \in Services
  /\ retriesLeft = 0
  /\ delay = 0
  /\ attempts = 0
  /\ waits = << >>
  /\ caught = << >>
  /\ callPc = "idle"
  /\ svcInput \in PlantInputs \cup WaterInputs
  /\ svcOutput = NotCalled
  /\ TokenIdle

contentFrame == << gardenVars, allocVars, rtVars, asyncVars, waterVars,
                  cameraVars, layoutVars, service, retriesLeft, delay,
                  attempts, waits, caught, callPc, svcInput, tokenVars >>

\* handlePlant up to the return of generateMindGardenContent
ContentGenerated ==
  /\ svcInput.op = "plant"
  /\ svcOutput = NotCalled
  /\ svcOutput' =
       [pc |-> "content",
        result |-> generateMindGardenContent(service, svcInput.analysis,
                                             svcInput.image, svcInput.songSuggestion),
        music |-> "undefined", card |-> NoCard, toast |-> "loading"]
  /\ UNCHANGED contentFrame

\* handlePlant: the music lookup after the content has come back
MusicLookedUp ==
  /\ svcOutput # NotCalled
  /\ svcOutput.pc = "content"
  /\ svcOutput.result.outcome = "returned"
  /\ svcOutput' =
       [svcOutput EXCEPT
          !.pc = "music",
          !.music = lookupMusic(svcOutput.result.songSuggestion,
                                svcInput.credentials, svcInput.search)]
  /\ UNCHANGED contentFrame

\* handlePlant: the card is built and saved and success is reported; an error
\* that left the music lookup goes to the catch block
PlantSaved ==
  /\ svcOutput # NotCalled
  /\ svcOutput.pc = "music"
  /\ svcOutput' =
       IF svcOutput.music = "thrown"
       THEN [svcOutput EXCEPT !.pc = "done", !.toast = "error"]
       ELSE [svcOutput EXCEPT
               !.pc = "done",
               !.card = [imageUrl |-> svcOutput.result.imageUrl,
                         growthStage |-> "seed",
                         music |-> svcOutput.music],
               !.toast = "success"]
  /\ UNCHANGED contentFrame

\* handlePlant: the catch block after generateMindGardenContent has thrown
PlantCaught ==
  /\ svcOutput # NotCalled
  /\ svcOutput.pc = "content"
  /\ svcOutput.result.outcome = "thrown"
  /\ svcOutput' = [svcOutput EXCEPT !.pc = "done", !.toast = "error"]
  /\ UNCHANGED contentFrame

\* handleWater up to the return of waterMindGardenThought
Watered ==
  /\ svcInput.op = "water"
  /\ svcOutput = NotCalled
  /\ svcOutput' =
       [pc |-> "watered",
        result |-> waterMindGardenThought(service, svcInput.growthStage,
                                          svcInput.text, svcInput.aiStage,
                                          svcInput.image, svcInput.image2),
        music |-> "undefined", card |-> NoCard, toast |-> "loading"]
  /\ UNCHANGED contentFrame

\* handleWater: the updated thought is built and saved, or the catch block
WaterSaved ==
  /\ svcOutput # NotCalled
  /\ svcOutput.pc = "watered"
  /\ svcOutput' =
       IF svcOutput.result.outcome = "thrown"
       THEN [svcOutput EXCEPT !.pc = "done", !.toast = "error"]
       ELSE [svcOutput EXCEPT
               !.pc = "done",
               !.card = [imageUrl |-> keptImage(svcOutput.result.newImageUrl,
                                                svcInput.imageUrl),
                         growthStage |-> svcOutput.result.newStage,
                         music |-> "undefined"],
               !.toast = IF svcOutput.result.newImageUrl # "undefined"
                         THEN "grown"
                         ELSE "nourished"]
  /\ UNCHANGED contentFrame

ContentNext ==
  \/ ContentGenerated
  \/ MusicLookedUp
  \/ PlantSaved
  \/ PlantCaught
  \/ Watered
  \/ WaterSaved

SpecContent == ContentInit /\ [][ContentNext]_vars

\* ------------------------------------- storageService called again and again
MaxStoreIds == 3

\* thoughts handed to saveThought: an id and something that tells two
\* versions of a thought apart
StoreThoughts == [id : 1..MaxStoreIds, growthStage : {"seed", "sprout"}]

StoreInit ==
  /\ GardenIdle
  /\ AllocIdle
  /\ RoundTripIdle
  /\ AsyncIdle
  /\ WaterIdle
  /\ CameraIdle
  /\ LayoutIdle
  /\ ServiceIdle
  /\ TokenIdle

storeFrame == << variant, gardenThoughts, islandCount, clock, deletes, lastOp,
                afterDelete, lastDeleted, lastPlanted, firstSlot, retrySlot,
                allocVars, rtVars, asyncVars, waterVars, cameraVars,
                layoutVars, service, retriesLeft, delay, attempts, waits,
                caught, callPc, svcOutput, tokenVars >>

\* saveThought(thought), the read and the write succeeding
saveThought(thought) ==
  /\ storage' = SavedList(storage, thought)
  /\ svcInput' = [op |-> "saveThought", thought |-> thought, id |-> thought.id]
  /\ UNCHANGED storeFrame

\* deleteThought(id), the read and the write succeeding
deleteThought(id) ==
  /\ storage' = DeletedList(storage, id)
  /\ svcInput' = [op |-> "deleteThought", thought |-> NoThought, id |-> id]
  /\ UNCHANGED storeFrame

StoreNext ==
  \/ \E thought \in StoreThoughts : saveThought(thought)
  \/ \E id \in 1..MaxStoreIds : deleteThought(id)

SpecStore == StoreInit /\ [][StoreNext]_vars

\* -------------------------------------- spotifyService: getSpotifyAccessToken
\* time runs in ticks of 100 seconds: the safety margin of 300 seconds
Margin == 3

MaxNow == 8

MaxTokens == 3

\* expires_in of the auth response, in ticks: below, at and above the margin
ExpiresIn == {2, 3, 5}

\* if (accessToken && Date.now() < tokenExpiresAt)
cachedTokenValid(token, expiresAt, time) ==
  token # 0 /\ time < expiresAt

\* a recorded expiry that lies after the real one
recordedExpiry_marginAdded(time, expires_in) ==
  time + (expires_in + Margin)

\* tokenExpiresAt = Date.now() + (data.expires_in - 300) * 1000
recordedExpiry(time, expires_in) ==
  time + (expires_in - Margin)

TokenInit ==
  /\ GardenIdle
  /\ AllocIdle
  /\ RoundTripIdle
  /\ AsyncIdle
  /\ WaterIdle
  /\ CameraIdle
  /\ LayoutIdle
  /\ ServiceIdle
  /\ TokenIdle

tokenFrame == << gardenVars, allocVars, rtVars, asyncVars, waterVars,
                cameraVars, layoutVars, serviceVars >>

\* time passes
Tick ==
  /\ now < MaxNow
  /\ now' = now + 1
  /\ UNCHANGED << accessToken, tokenExpiresAt, expiryOf, tokPc, tokCall, tokOut >>
  /\ UNCHANGED tokenFrame

\* a call that finds a valid cached token returns it at once
ReturnCached ==
  /\ tokPc = "idle"
  /\ cachedTokenValid(accessToken, tokenExpiresAt, now)
  /\ tokOut' = [outcome |-> "returned", token |-> accessToken, at |-> now,
                contacted |-> FALSE,
                call |-> [at |-> now, accessToken |-> accessToken,
                          tokenExpiresAt |-> tokenExpiresAt]]
  /\ UNCHANGED << accessToken, tokenExpiresAt, now, expiryOf, tokPc, tokCall >>
  /\ UNCHANGED tokenFrame

\* a call that finds no valid token posts to the auth endpoint
FetchStart ==
  /\ tokPc = "idle"
  /\ ~cachedTokenValid(accessToken, tokenExpiresAt, now)
  /\ Len(expiryOf) < MaxTokens
  /\ tokPc' = "fetching"
  /\ tokCall' = [at |-> now, accessToken |-> accessToken,
                 tokenExpiresAt |-> tokenExpiresAt]
  /\ UNCHANGED << accessToken, tokenExpiresAt, now, expiryOf, tokOut >>
  /\ UNCHANGED tokenFrame

\* the auth endpoint answers with a new token: it is cached and returned
FetchOk(expires_in) ==
  /\ tokPc = "fetching"
  /\ expiryOf' = Append(expiryOf, now + expires_in)
  /\ accessToken' = Len(expiryOf) + 1
  /\ tokenExpiresAt' = recordedExpiry(now, expires_in)
  /\ tokOut' = [outcome |-> "returned", token |-> Len(expiryOf) + 1, at |-> now,
                contacted |-> TRUE, call |-> tokCall]
  /\ tokPc' = "idle"
  /\ UNCHANGED << now, tokCall >>
  /\ UNCHANGED tokenFrame

\* the auth endpoint answers with an error, or fetch rejects: the call throws
FetchFail ==
  /\ tokPc = "fetching"
  /\ tokOut' = [outcome |-> "thrown", token |-> 0, at |-> now,
                contacted |-> TRUE, call |-> tokCall]
  /\ tokPc' = "idle"
  /\ UNCHANGED << accessToken, tokenExpiresAt, now, expiryOf, tokCall >>
  /\ UNCHANGED tokenFrame

TokenNext ==
  \/ Tick
  \/ ReturnCached
  \/ FetchStart
  \/ \E expires_in \in ExpiresIn : FetchOk(expires_in)
  \/ FetchFail

SpecToken == TokenInit /\ [][TokenNext]_vars

\* --------------------------------------- the garden with refreshes that fail
\* the number of plants up to which a refresh fails
MaxStaleClock == 2

\* refreshGarden after getThoughts could not read the store: the copy of
\* getThoughts that catches the error hands back an empty list, which becomes
\* the in-memory list while the stored thoughts stay
RefreshFailed ==
  /\ clock <= MaxStaleClock
  /\ gardenThoughts # << >>
  /\ gardenThoughts' = << >>
  /\ lastOp' = "refreshFailed"
  /\ UNCHANGED << variant, storage, islandCount, clock, deletes, afterDelete,
                  lastDeleted, lastPlanted, firstSlot, retrySlot >>
  /\ UNCHANGED << allocVars, rtVars, asyncVars, waterVars, cameraVars,
                  layoutVars, serviceVars, tokenVars >>

RefreshNext ==
  \/ handlePlant
  \/ plantWithExpansion
  \/ \E k \in 1..MaxPlants : handleDelete(k)
  \/ RefreshFailed

SpecRefresh == GardenInit /\ [][RefreshNext]_vars

\* ----------------------------- the loading flag: plants whose calls may hang
LoadingInit ==
  /\ variant = "app"
  /\ storage = << >>
  /\ gardenThoughts = << >>
  /\ islandCount = 1
  /\ clock = 0
  /\ deletes = 0
  /\ lastOp = "none"
  /\ afterDelete = FALSE
  /\ lastDeleted = NoThought
  /\ lastPlanted = NoThought
  /\ firstSlot = NotCalled
  /\ retrySlot = NotCalled
  /\ AllocIdle
  /\ RoundTripIdle
  /\ AsyncIdle
  /\ WaterIdle
  /\ CameraIdle
  /\ LayoutIdle
  /\ service \in Services
  /\ retriesLeft = 0
  /\ delay = 0
  /\ attempts = 0
  /\ waits = << >>
  /\ caught = << >>
  /\ callPc = "idle"
  /\ svcInput = NotCalled
  /\ svcOutput = NotCalled
  /\ TokenIdle

\* a call of the model inside generateMindGardenContent never settles: the
\* copy of callWithRetry in services awaits it for ever (the later copy's
\* timeout turns it into a rejection, which is GenerateFail)
GenerateHangs(p) ==
  /\ plantPc[p] = "generating"
  /\ service = "services"
  /\ plantPc' = [plantPc EXCEPT ![p] = "pending"]
  /\ UNCHANGED << storage, gardenThoughts, clock, deletes, isLoading,
                  plantClosure, plantCard, plantRead, submits, refused, delPc,
                  delId, delRead >>
  /\ UNCHANGED asyncFrame

\* the steps of a plant that happen once the awaited call has settled
PlantSettles(p) ==
  \/ GenerateOk(p)
  \/ GenerateFail(p)
  \/ SaveRead(p)
  \/ SaveWrite(p)
  \/ SaveFail(p)
  \/ PlantRefreshRead(p)
  \/ PlantFinish(p)

LoadingNext ==
  \/ AsyncNext
  \/ \E p \in Plants : GenerateHangs(p)

SpecLoading ==
  /\ LoadingInit
  /\ [][LoadingNext]_vars
  /\ \A p \in Plants : WF_vars(PlantSettles(p))

\* ------------------------------------------------- what the claims speak of
\* the positions held by the thoughts of a list
PositionsOf(list) == { list[k].position : k \in 1..Len(list) }

\* the island a stored position encodes: floor(x / 100)
IslandOf(position) == FloorDiv(position.x, Hundred)

\* the island count the running garden draws (and, in konva, allocates) with
IslandCountInUse ==
  IF variant = "app" THEN totalIslands(gardenThoughts) ELSE islandCount

\* the slot the last konva plant was given
GivenSlot == IF firstSlot = NULL THEN retrySlot ELSE firstSlot

\* C1: after any sequence of plants and deletes from the empty garden, each
\* committed before the next begins, no two thoughts hold the same stored
\* position, in the store and in the garden list alike.
C1_NoTwoThoughtsShareAPosition ==
  /\ \A i, j \in 1..Len(storage) :
       i # j => storage[i].position # storage[j].position
  /\ \A i, j \in 1..Len(gardenThoughts) :
       i # j => gardenThoughts[i].position # gardenThoughts[j].position

\* a plant has just filled a garden that a delete had thinned
C1_Witness ==
  /\ lastOp = "plant"
  /\ afterDelete
  /\ deletes = MaxDeletes
  /\ Len(storage) >= 3

\* C3: planting into the empty konva garden without deleting, the allocator
\* returns global index 0, then 1, then 2, ...: the k-th plant is given index
\* k - 1, the island count growing by one on each null.
C3_IndicesCountUp ==
  (variant = "konva" /\ deletes = 0 /\ lastOp = "plant")
    => /\ GivenSlot # NULL
       /\ GivenSlot.globalIndex = clock - 1

\* three islands' worth of slots and more have been handed out in a row
C3_Witness ==
  /\ variant = "konva"
  /\ deletes = 0
  /\ lastOp = "plant"
  /\ clock > 3 * SLOTS_PER_ISLAND
  /\ GivenSlot # NULL
  /\ GivenSlot.globalIndex = clock - 1

C6_TwelvePerIsland ==
  deletes = 0 =>
    \A k \in 1..Len(storage) :
      LET t == storage[k]
      IN /\ t.id <= 12 =>
              t.position = [x |-> App_ISLAND_SLOTS[t.id].x * Res,
                            y |-> App_ISLAND_SLOTS[t.id].y * Res]
         /\ t.id = 13 =>
              /\ t.position = [x |-> Hundred + App_ISLAND_SLOTS[1].x * Res,
                               y |-> App_ISLAND_SLOTS[1].y * Res]
              /\ (clock = 13 => IslandCountInUse = 2)

\* C8: the derived island count is 1 for an empty garden and otherwise one
\* more than the largest floor(x / 100) among the thoughts; and the island
\* count in use is never below the island index of any thought plus one.
C8_IslandCountCoversThoughts ==
  LET islandsHeld == { IslandOf(pos) : pos \in PositionsOf(gardenThoughts) }
  IN /\ variant = "app" =>
          /\ islandsHeld = {} => totalIslands(gardenThoughts) = 1
          /\ islandsHeld # {} =>
               /\ totalIslands(gardenThoughts) - 1 \in islandsHeld
               /\ \A i \in islandsHeld : i <= totalIslands(gardenThoughts) - 1
     /\ \A i \in islandsHeld : IslandCountInUse >= i + 1

\* the app garden has spilled onto a second island and lost a thought
C8_Witness ==
  /\ variant = "app"
  /\ deletes > 0
  /\ totalIslands(gardenThoughts) = 2
  /\ \E pos \in PositionsOf(gardenThoughts) : IslandOf(pos) = 1

\* the stored position of global index g in a slot table, as the data model
\* defines it: x = island * 100 + slot.x, y = slot.y
SlotCoord(slots, g) ==
  [x |-> (g \div Len(slots)) * Hundred + slots[(g % Len(slots)) + 1].x * Res,
   y |-> slots[(g % Len(slots)) + 1].y * Res]

\* a position lies less than one percentage point, in both axes, from the
\* stored position of global index g
Within1(pos, slots, g) ==
  /\ Abs(pos.x - SlotCoord(slots, g).x) < Res
  /\ Abs(pos.y - SlotCoord(slots, g).y) < Res

\* some thought of the list occupies global index g
Occupied(list, slots, g) ==
  \E k \in 1..Len(list) : Within1(list[k].position, slots, g)

\* g is free in the list and every smaller index is occupied
LowestFree(list, slots, g) ==
  /\ ~Occupied(list, slots, g)
  /\ \A h \in 0..(g - 1) : Occupied(list, slots, h)

\* the position matches no slot of any island the model's lists reach
FreeForm(pos, slots) ==
  \A g \in 0..((MaxIslandCount + 2) * Len(slots) - 1) : ~Within1(pos, slots, g)

\* C2: the allocator returns the lowest free global index: the index it
\* returns is free and every smaller one is occupied; so once the thought at
\* an index below every free one has left the list, the next call returns
\* that index and that slot's coordinates.
C2_LowestFreeIndex ==
  /\ (outSlot # NotCalled /\ outSlot # NULL) =>
        /\ LowestFree(inThoughts, ISLAND_SLOTS, outSlot.globalIndex)
        /\ outStored = SlotCoord(ISLAND_SLOTS, outSlot.globalIndex)
  /\ outPosition # NotCalled =>
        \E g \in 0..Len(inThoughts) :
          /\ LowestFree(inThoughts, App_ISLAND_SLOTS, g)
          /\ outPosition = SlotCoord(App_ISLAND_SLOTS, g)
  /\ (removed # NoThought /\ outSlot # NotCalled) =>
        /\ \A g \in 0..(inCount * SLOTS_PER_ISLAND - 1) :
             (Within1(removed.position, ISLAND_SLOTS, g)
                /\ LowestFree(inThoughts, ISLAND_SLOTS, g))
               => /\ outSlot # NULL
                  /\ outSlot.globalIndex = g
                  /\ outStored = SlotCoord(ISLAND_SLOTS, g)
        /\ \A g \in 0..Len(inThoughts) :
             (Within1(removed.position, App_ISLAND_SLOTS, g)
                /\ LowestFree(inThoughts, App_ISLAND_SLOTS, g))
               => outPosition = SlotCoord(App_ISLAND_SLOTS, g)

\* island 0 was full, the thought at its slot 5 left, and the allocator was
\* asked again
C2_Witness ==
  /\ Len(inThoughts) = App_SLOTS_PER_ISLAND - 1
  /\ removed # NoThought
  /\ removed.position = SlotCoord(App_ISLAND_SLOTS, 5)
  /\ outPosition = SlotCoord(App_ISLAND_SLOTS, 5)

\* C4: getNextAvailableSlot returns null exactly when every global index below
\* islandCount * slotsPerIsland is occupied, and otherwise a slot whose index
\* lies in that range.
C4_NullIffExhausted ==
  outSlot # NotCalled =>
    LET totalSlots == inCount * SLOTS_PER_ISLAND
    IN /\ outSlot = NULL <=>
            \A g \in 0..(totalSlots - 1) : Occupied(inThoughts, ISLAND_SLOTS, g)
       /\ outSlot # NULL =>
            /\ outSlot.globalIndex \in 0..(totalSlots - 1)
            /\ outSlot.islandIndex \in 0..(inCount - 1)
            /\ outSlot.slotIndex \in 0..(SLOTS_PER_ISLAND - 1)
            /\ outSlot.globalIndex =
                 outSlot.islandIndex * SLOTS_PER_ISLAND + outSlot.slotIndex

\* two islands are full, a free-form thought is in the list as well, and the
\* allocator reported exhaustion
C4_Witness ==
  /\ outSlot = NULL
  /\ inCount = 2
  /\ \E k \in 1..Len(inThoughts) : FreeForm(inThoughts[k].position, ISLAND_SLOTS)

\* C10: a stored position that is not within one percentage point of any
\* slot looks up as -1, and a thought carrying it changes nothing for the
\* allocator: the same slot is returned with the thought in the list as
\* without it.
C10_FreeFormNeverBlocks ==
  added # NoThought =>
    /\ FreeForm(added.thought.position, ISLAND_SLOTS) =>
          /\ added.hookIndex = -1
          /\ outSlot = prevSlot
    /\ FreeForm(added.thought.position, App_ISLAND_SLOTS) =>
          /\ added.appIndex = -1
          /\ outPosition = prevPosition

\* a free-form thought joined a list that leaves a slot free
C10_Witness ==
  /\ added # NoThought
  /\ FreeForm(added.thought.position, ISLAND_SLOTS)
  /\ FreeForm(added.thought.position, App_ISLAND_SLOTS)
  /\ outSlot # NULL
  /\ outSlot = prevSlot
  /\ Len(inThoughts) >= 2

\* C7: for every island i and local slot s, the stored position of (i, s) is
\* (i * 100 + slot.x, slot.y) and looks up as global index
\* i * slotsPerIsland + s.
C7_RoundTrip ==
  LET slots == IF rtInput.kind = "hook" THEN ISLAND_SLOTS ELSE App_ISLAND_SLOTS
  IN /\ rtPosition # NotCalled =>
          rtPosition =
            [x |-> (rtInput.islandIndex * 100 + slots[rtInput.slotIndex + 1].x) * Res,
             y |-> slots[rtInput.slotIndex + 1].y * Res]
     /\ rtIndex # NotCalled =>
          rtIndex.value = rtInput.islandIndex * Len(slots) + rtInput.slotIndex

\* the last slot of a far island went to a stored position and back
C7_Witness ==
  /\ rtIndex # NotCalled
  /\ rtInput.kind = "app"
  /\ rtInput.islandIndex = MaxIsland
  /\ rtInput.slotIndex = App_SLOTS_PER_ISLAND - 1
  /\ rtIndex.value = MaxIsland * App_SLOTS_PER_ISLAND + App_SLOTS_PER_ISLAND - 1

\* the plants that have started and not yet finished
Pending == { p \in Plants : plantPc[p] # "idle" }

\* C9: from the moment a plant starts until it has saved its thought and
\* refreshed the garden list no second plant runs, so no two pending plants
\* hold a position at the same time, let alone the same one.
C9_OnePlantAtATime ==
  /\ \A p, q \in Pending : p = q
  /\ \A p, q \in Pending :
       (p # q /\ plantCard[p] # NoThought /\ plantCard[q] # NoThought)
         => plantCard[p].position # plantCard[q].position
  /\ Pending # {} => isLoading

\* a plant holds its position and waits for the store while a second
\* submission has been dropped and an earlier thought is in the garden
C9_Witness ==
  /\ \E p \in Plants : plantPc[p] = "saveWrite" /\ plantCard[p] # NoThought
  /\ refused
  /\ Len(gardenThoughts) >= 1


Range(list) == { list[i] : i \in 1..Len(list) }

\* every copy of a thought the program holds: stored, displayed, captured by a
\* suspended handler or read back from the store
ThoughtsHeld ==
  (Range(storage) \cup Range(gardenThoughts) \cup Range(watRead)
     \cup Range(delRead)
     \cup UNION { Range(plantClosure[p]) \cup Range(plantRead[p]) : p \in Plants }
     \cup { plantCard[p] : p \in Plants }
     \cup { watThought, watCard })
  \ { NoThought }

\* C11: a thought's stored position never changes after it is assigned. In
\* every step, every copy of a thought held after the step carries the position
\* that every copy of the same thought carried before the step, whether the
\* step waters it, plants or deletes another thought, frees a lower slot or
\* grows the island count.
C11_PositionNeverChanges ==
  [][\A t \in ThoughtsHeld : \A u \in ThoughtsHeld' :
       u.id = t.id => u.position = t.position]_vars

\* a watered thought survives in the konva garden on the second island after
\* the thought of the first island was deleted
C11_Witness ==
  /\ variant = "konva"
  /\ islandCount > 1
  /\ deletes > 0
  /\ lastDeleted # NoThought
  /\ \E i \in 1..Len(storage) :
       /\ storage[i].updates # << >>
       /\ lastDeleted.id < storage[i].id
       /\ IslandOf(storage[i].position) = 1


\* C12: at most one camera animation runs at any time. The tweens playing on
\* the stage are at most one, and it is the tween animRef holds and the one
\* created last: a tween that animateZoomOut replaced is destroyed before the
\* new one plays, none waits in a queue, and the frames that are played and
\* the onFinish that writes a target into the camera are those of the tween
\* created last, never those of a replaced one.
C12_OneAnimationAtATime ==
  /\ Cardinality(tweens) <= 1
  /\ \A tw \in tweens : tw.id = animRef /\ tw.id = started
  /\ (tweens = {}) <=> (animRef = NoTween)
  /\ lastEvent.kind \in {"frame", "finish"} => lastEvent.id = started

\* animateZoomOut was called while a tween was in flight
C12_Witness ==
  /\ lastEvent.kind = "count"
  /\ lastEvent.replaced # NoTween
  /\ Cardinality(tweens) = 1
  /\ started = 2


Playing(id) == \E tw \in tweens : tw.id = id

\* C13: every camera animation that is started and not superseded eventually
\* completes: a playing tween leads to its onFinish unless a later
\* animateZoomOut replaced it; and when onFinish has run the camera is exactly
\* the requested target and no animation is recorded as running.
C13_AnimationCompletes ==
  /\ \A id \in 1..MaxEvents :
       Playing(id) ~> ((lastEvent.kind = "finish" /\ lastEvent.id = id)
                         \/ started > id)
  /\ [](lastEvent.kind = "finish"
          => camera = lastEvent.to /\ animRef = NoTween /\ tweens = {})

\* an expansion animation has just completed at a target that is not where it
\* started
C13_Witness ==
  /\ lastEvent.kind = "finish"
  /\ camera = fitCamera(stageSize, getWorldSize(islandCount))
  /\ camera # fitCamera(stageSize, getWorldSize(islandCount - 1))
  /\ animRef = NoTween


\* C14: the camera controller is in exactly one of the states idle, panning
\* and animating, so a pan and an animation are never active at the same time
\* (panning is entered only from idle, animating only from idle or by replacing
\* a running animation).
C14_PanAndAnimationExclusive ==
  /\ ~(isPanning /\ animRef # NoTween)
  /\ (lastEvent.kind = "down" /\ isPanning) => animRef = NoTween
  /\ (lastEvent.kind = "count" /\ animRef # NoTween) => ~isPanning


ScaleWithinBounds(scale) == MIN_SCALE <= scale /\ scale <= MAX_SCALE

\* C15: in every reachable camera state, after any sequence of initial fit,
\* wheel zoom-in and zoom-out events, pans and expansion animations, the scale
\* lies within [0.15, 2.0]: the scale of the camera state, and the scale the
\* stage node is drawn with while a tween interpolates it.
C15_ScaleWithinBounds ==
  initialized => ScaleWithinBounds(camera.scale) /\ ScaleWithinBounds(stage.scale)

\* a zoom-in that would have passed 2.0 was held at 2.0
C15_Witness ==
  /\ lastEvent.kind = "wheel"
  /\ lastEvent.direction = 1
  /\ Round(lastEvent.node.scale * ZOOM_SENSITIVITY, ScaleUnit) > MAX_SCALE
  /\ lastEvent.node.scale < MAX_SCALE
  /\ camera.scale = MAX_SCALE

\* the world coordinate drawn at a screen point under a view transform, and
\* the screen point a world coordinate is drawn at
ScreenToWorld(point, view) ==
  [x |-> Over(point.x - view.x, view.scale), y |-> Over(point.y - view.y, view.scale)]

WorldToScreen(world, view) ==
  [x |-> Times(world.x, view.scale) + view.x, y |-> Times(world.y, view.scale) + view.y]

\* C16: after a wheel event at screen pointer P, the world coordinate that was
\* drawn at P before the event (under the stage node's transform) is drawn at P
\* again under the new {scale, x, y}, also when the new scale is clamped.
C16_ZoomAnchoredAtPointer ==
  lastEvent.kind = "wheel" =>
    WorldToScreen(ScreenToWorld(lastEvent.pointer, lastEvent.node), camera)
      = lastEvent.pointer

\* a zoom-out that would have passed below 0.15 was held there, and moved the
\* offsets
C16_Witness ==
  /\ lastEvent.kind = "wheel"
  /\ lastEvent.direction = -1
  /\ Round(lastEvent.node.scale * ScaleUnit, ZOOM_SENSITIVITY) < MIN_SCALE
  /\ lastEvent.node.scale > MIN_SCALE
  /\ camera.scale = MIN_SCALE
  /\ camera.x # lastEvent.node.x

\* the step is the handling of a user event of this kind
StepOf(kind) == events' = events + 1 /\ lastEvent'.kind = kind

\* C17: panning is entered only on a pointer-down whose target is the stage
\* background (a pointer-down on a thought marker starts no pan); every
\* pointer-up and pointer-leave ends with not panning; a pointer move received
\* while not panning leaves the camera state, and the stage drawn, unchanged.
C17_PanningByPointer ==
  [][ /\ (~isPanning /\ isPanning')
           => (StepOf("down") /\ lastEvent'.target = "stage")
      /\ (StepOf("down") /\ lastEvent'.target = "shape")
           => (isPanning' = isPanning /\ panStart' = panStart)
      /\ (StepOf("up") \/ StepOf("leave")) => ~isPanning'
      /\ (StepOf("move") /\ ~isPanning) => (camera' = camera /\ stage' = stage)
    ]_vars

\* a pan that moved the camera was ended by the pointer leaving the stage
C17_Witness ==
  /\ lastEvent.kind = "leave"
  /\ ~isPanning
  /\ camera.x = Px(400) - panStart.x
  /\ camera.x # fitCamera(stageSize, getWorldSize(islandCount)).x

\* the scale one wheel step in a direction leads to from a scale
WheelScale(scale, direction) ==
  LET wanted == IF direction > 0
                THEN Round(scale * ZOOM_SENSITIVITY, ScaleUnit)
                ELSE Round(scale * ScaleUnit, ZOOM_SENSITIVITY)
  IN IF wanted > MAX_SCALE THEN MAX_SCALE
     ELSE IF wanted < MIN_SCALE THEN MIN_SCALE
     ELSE wanted

\* C18: a wheel event is handled at once whether or not a pan is in progress:
\* the step that handles it sets the new scale and the offsets that go with it
\* together, starts no animation, and leaves the pan in progress (or its
\* absence) as it was.
C18_WheelHandledInPlace ==
  [][ StepOf("wheel") =>
        /\ camera'.scale = WheelScale(stage.scale, lastEvent'.direction)
        /\ WorldToScreen(ScreenToWorld(lastEvent'.pointer, stage), camera')
             = lastEvent'.pointer
        /\ animRef' = animRef
        /\ tweens' = tweens
        /\ started' = started
        /\ isPanning' = isPanning
        /\ panStart' = panStart
    ]_vars

\* a wheel event handled in the middle of a pan changed the scale and the
\* offsets, and the pan is still in progress
C18_Witness ==
  /\ lastEvent.kind = "wheel"
  /\ isPanning
  /\ camera.scale # lastEvent.node.scale
  /\ camera.x # lastEvent.node.x
  /\ animRef = NoTween

\* the scale at which the world and a margin of 100 pixels fill the viewport
\* along its tighter axis
FillScale(size, world) ==
  LET byWidth == Ratio(size.width, world.width + Px(100))
      byHeight == Ratio(size.height, world.height + Px(100))
  IN IF byWidth < byHeight THEN byWidth ELSE byHeight

\* C19: the initial fit sets the camera directly, with no animation, to the
\* scale max(min(vw / (W + 100), vh / (H + 100), 1), 0.15), which is never above
\* 1:1 and never below the minimum scale, and to the offsets
\* (viewport - world * scale) / 2, which leave the same room on both sides of
\* the world along each axis.
C19_InitialFitCentred ==
  lastEvent.kind = "fit" =>
    LET world == getWorldSize(islandCount)
        fill == FillScale(stageSize, world)
        wide == Times(world.width, camera.scale)
        high == Times(world.height, camera.scale)
    IN /\ camera.scale = (IF fill > NativeScale THEN NativeScale
                           ELSE IF fill < MIN_SCALE THEN MIN_SCALE
                           ELSE fill)
       /\ camera.scale <= NativeScale
       /\ camera.scale >= MIN_SCALE
       /\ camera.x = Round(stageSize.width - wide, 2)
       /\ camera.y = Round(stageSize.height - high, 2)
       /\ Abs(camera.x - (stageSize.width - wide - camera.x)) <= 1
       /\ Abs(camera.y - (stageSize.height - high - camera.y)) <= 1
       /\ stage = camera
       /\ tweens = {}
       /\ animRef = NoTween

\* a viewport larger than the world and its margin was fitted at 1:1, the
\* world centred in it
C19_Witness ==
  /\ lastEvent.kind = "fit"
  /\ FillScale(stageSize, getWorldSize(islandCount)) > NativeScale
  /\ camera.scale = NativeScale
  /\ camera.x > 0
  /\ camera.y > 0

\* C20: when the viewport has zero width or zero height as the initial fit is
\* computed, the fit does nothing: the camera state stays as it was and the
\* fit is still to be done once a non-zero viewport measurement arrives.
C20_ZeroViewportFitDeferred ==
  (lastEvent.kind = "fit" /\ (stageSize.width = 0 \/ stageSize.height = 0))
    => /\ camera = [scale |-> NativeScale, x |-> 0, y |-> 0]
       /\ ~initialized

\* the world centred in the viewport at the scale that fits it with its
\* margin, not above 1:1 and not below the minimum scale
FitOf(size, world) ==
  LET fill == FillScale(size, world)
      scale == IF fill > NativeScale THEN NativeScale
               ELSE IF fill < MIN_SCALE THEN MIN_SCALE
               ELSE fill
  IN [scale |-> scale,
      x |-> Round(size.width - Times(world.width, scale), 2),
      y |-> Round(size.height - Times(world.height, scale), 2)]

\* C21: whenever the island count grows from the count last observed, an
\* animated transition from what the stage shows to the fit of the new world
\* bounds is started; when the count decreases, and when only the viewport is
\* resized, no animation is started; nothing else starts one.
C21_ExpandAnimatesOnGrowth ==
  [][ /\ (StepOf("count") /\ islandCount' > prevIslandCount)
           => /\ started' = started + 1
              /\ animRef' = started'
              /\ [id |-> started', from |-> stage,
                  to |-> FitOf(stageSize, getWorldSize(islandCount')),
                  frame |-> 0] \in tweens'
      /\ ((StepOf("count") /\ islandCount' <= prevIslandCount) \/ StepOf("resize"))
           => (started' = started /\ tweens' = tweens /\ animRef' = animRef)
      /\ (started' # started) => (StepOf("count") /\ islandCount' > islandCount)
    ]_vars

\* the island count grew and the transition to the smaller fit of the larger
\* world is playing
C21_Witness ==
  /\ lastEvent.kind = "count"
  /\ lastEvent.to > lastEvent.from
  /\ animRef = started
  /\ \E tw \in tweens :
       /\ tw.id = animRef
       /\ tw.frame = 0
       /\ tw.to = FitOf(stageSize, getWorldSize(islandCount))
       /\ tw.to.scale < tw.from.scale

\* C22: island origins follow the grid rule col = k % columnsPerRow,
\* row = floor(k / columnsPerRow), origin = (col * (islandWidth + gap),
\* row * (islandHeight + gap)); so the island after k lies further right when
\* it stays in the row of k, and lower when it wraps to a new row.
C22_OriginsFollowTheGrid ==
  (layInput.kind = "origin" /\ layOutput # NotCalled) =>
    LET k == layInput.islandIndex
        origin == layOutput.origin
        next == layOutput.next
    IN /\ origin.x = (k % ISLANDS_PER_ROW) * (Px(900) + Px(60))
       /\ origin.y = (k \div ISLANDS_PER_ROW) * (Px(600) + Px(60))
       /\ ((k + 1) % ISLANDS_PER_ROW # 0) => (next.x > origin.x /\ next.y = origin.y)
       /\ ((k + 1) % ISLANDS_PER_ROW = 0) => next.y > origin.y

\* the island after an odd island opens a new row one island and one gap lower
C22_Witness ==
  /\ layInput.kind = "origin"
  /\ layOutput # NotCalled
  /\ layInput.islandIndex = 3
  /\ layOutput.next = [x |-> 0, y |-> 2 * Px(660)]

\* the largest number of a non-empty set of numbers
Largest(set) == CHOOSE m \in set : \A other \in set : other <= m

\* C23: for every island count n >= 1, the island rectangles are n rectangles,
\* one per index 0..n-1 at that index's origin and all of the same size, and
\* getWorldSize(n) is exactly their bounding box: as wide as the largest right
\* edge and as high as the largest bottom edge, with no outer margin.
C23_WorldSizeIsBoundingBox ==
  (layInput.kind = "world" /\ layOutput # NotCalled /\ layInput.islandCount >= 1) =>
    LET n == layInput.islandCount
        rects == layOutput.islands
        world == layOutput.world
    IN /\ Len(rects) = n
       /\ \A k \in 1..n :
            /\ rects[k].index = k - 1
            /\ rects[k].x = ((k - 1) % ISLANDS_PER_ROW) * (Px(900) + Px(60))
            /\ rects[k].y = ((k - 1) \div ISLANDS_PER_ROW) * (Px(600) + Px(60))
            /\ rects[k].width = Px(900)
            /\ rects[k].height = Px(600)
       /\ world.width = Largest({ rects[k].x + rects[k].width : k \in 1..n })
       /\ world.height = Largest({ rects[k].y + rects[k].height : k \in 1..n })
       /\ \A k \in 1..n : rects[k].x >= 0 /\ rects[k].y >= 0

\* three islands: two in the first row and one in the second, in a world two
\* islands and a gap wide and high
C23_Witness ==
  /\ layInput.kind = "world"
  /\ layOutput # NotCalled
  /\ layInput.islandCount = 3
  /\ Len(layOutput.islands) = 3
  /\ layOutput.world = [width |-> Px(1860), height |-> Px(1260)]

\* the slot table a generation of the garden looks positions up in
SlotsOf(generation) ==
  IF generation = "hook" THEN ISLAND_SLOTS ELSE App_ISLAND_SLOTS

\* the slots of a table that lie less than one percentage point from a stored
\* position on each axis, by their 0-based index
SlotsNear(slots, pos) ==
  { k - 1 : k \in { j \in 1..Len(slots) :
                     /\ Abs(slots[j].x * Res - (pos.x % Hundred)) < Res
                     /\ Abs(slots[j].y * Res - pos.y) < Res } }

\* C24: no two configured slots are within 2 units of each other on both
\* axes, so no stored position matches more than one slot under the reverse
\* lookup's tolerance of less than 1 percentage point per axis: the lookup
\* finds the one slot near the position, or none.
C24_SlotsFarApart ==
  (layInput.kind = "position" /\ layOutput # NotCalled) =>
    LET slots == SlotsOf(layInput.generation)
        near == SlotsNear(slots, layInput.position)
        found == layOutput.value
    IN /\ \A i, j \in 1..Len(slots) :
            i # j => ~(/\ Abs(slots[i].x - slots[j].x) < 2
                       /\ Abs(slots[i].y - slots[j].y) < 2)
       /\ Cardinality(near) <= 1
       /\ (found = -1) <=> (near = {})
       /\ (found # -1) => near = { found % Len(slots) }

\* a position half a percentage point off a slot of the second island, with
\* other slots of the table five points away, is looked up as that slot
C24_Witness ==
  /\ layInput.kind = "position"
  /\ layInput.generation = "app"
  /\ layInput.position = [x |-> Hundred + 45 * Res + 1, y |-> 60 * Res - 1]
  /\ layOutput # NotCalled
  /\ layOutput.value = App_SLOTS_PER_ISLAND + 4

\* the stage that follows a stage in the order seed, sprout, bloom, fruit
StageAfter(from) ==
  CASE from = "seed" -> "sprout"
    [] from = "sprout" -> "bloom"
    [] from = "bloom" -> "fruit"
    [] OTHER -> "fruit"

\* C25: growth follows the order seed, sprout, bloom, fruit: every watering of
\* a thought that is not at the final stage moves it to the stage right after
\* its own, never to an earlier stage, never past a stage (and never leaves it
\* where it was); the update log records each watering's two stages.
C25_GrowthInOrder ==
  \A t \in ThoughtsHeld :
    \A i \in 1..Len(t.updates) :
      t.updates[i].newStage = StageAfter(t.updates[i].previousStage)

RECURSIVE TwoToThe(_)
TwoToThe(n) == IF n = 0 THEN 1 ELSE 2 * TwoToThe(n - 1)

\* C27: callWithRetry ends with a result or an error after at most the first
\* call plus 2 retries; it calls again only after an overload error (status or
\* code 503, or a message containing 'overloaded'), having waited 1000 ms
\* before the first retry and twice the previous delay before each later one;
\* any other error, its own per-attempt timeout included, is rethrown without
\* a retry, so no attempt is awaited for ever.
C27_RetryBounded ==
  /\ attempts <= 2 + 1
  /\ \A i \in 1..Len(waits) :
       /\ waits[i] = 1000 * TwoToThe(i - 1)
       /\ \/ caught[i].status = 503
          \/ caught[i].code = 503
          \/ caught[i].message = "overloaded"
  /\ callPc # "pending"
  /\ (callPc = "thrown" /\ Len(waits) < 2) =>
       caught[Len(caught)].message \in {"other", "503", "taking a moment"}
         /\ caught[Len(caught)].status # 503
         /\ caught[Len(caught)].code # 503

\* an image call that yields no image
ImageFails(outcome) ==
  outcome \in {"noData", "rejects"}

\* C28: a failure of image generation never fails the surrounding operation:
\* a plant whose analysis came back is saved with the fallback image url, and
\* a watering whose answer came back and whose image calls all fail is saved
\* with the answer's stage, no new image, and the thought's previous image.
C28_ImageFailureNotFatal ==
  (svcOutput # NotCalled /\ svcOutput.pc = "done") =>
    /\ (svcInput.op = "plant" /\ svcInput.analysis = "ok"
           /\ ImageFails(svcInput.image)) =>
          /\ svcOutput.toast = "success"
          /\ svcOutput.card.imageUrl = FallbackUrl
    /\ (svcInput.op = "water" /\ svcInput.text = "ok"
           /\ ImageFails(svcInput.image) /\ ImageFails(svcInput.image2)) =>
          /\ svcOutput.toast = "nourished"
          /\ svcOutput.result.newImageUrl = "undefined"
          /\ svcOutput.card.growthStage = svcOutput.result.newStage
          /\ svcOutput.card.imageUrl = svcInput.imageUrl

\* the music lookup of a plant finds no track: no song suggestion, missing
\* credentials, or a search that fails, throws or finds nothing
NoTrackFound ==
  \/ svcOutput.result.songSuggestion = "undefined"
  \/ ~svcInput.credentials
  \/ svcInput.search # "track"

\* C29: planting succeeds independently of the music lookup: once the content
\* has come back, the plant ends with the card saved and success reported, and
\* the card has no music when the lookup found no track.
C29_PlantIndependentOfMusic ==
  (svcOutput # NotCalled /\ svcOutput.pc = "done" /\ svcInput.op = "plant"
     /\ svcOutput.result.outcome = "returned") =>
    /\ svcOutput.toast = "success"
    /\ svcOutput.card # NoCard
    /\ svcOutput.card.imageUrl = svcOutput.result.imageUrl
    /\ NoTrackFound => svcOutput.card.music = "undefined"

C29_Witness ==
  /\ svcOutput # NotCalled
  /\ svcOutput.pc = "done"
  /\ svcInput.op = "plant"
  /\ svcOutput.result.songSuggestion = "query"
  /\ svcInput.credentials
  /\ svcInput.search = "throws"
  /\ svcOutput.toast = "success"
  /\ svcOutput.card.music = "undefined"

\* the ids of the records of a list
IdsOf(list) == { list[k].id : k \in 1..Len(list) }

NoSharedId(list) ==
  \A i, j \in 1..Len(list) : list[i].id = list[j].id => i = j

\* what one call does to the store: a save of a stored id replaces that record
\* where it is, a save of a new id adds one record, a delete removes the
\* record of that id; every other record stays
StoredById ==
  LET call == svcInput'
  IN  /\ (call.op = "saveThought" /\ call.id \in IdsOf(storage)) =>
            /\ Len(storage') = Len(storage)
            /\ \A k \in 1..Len(storage) :
                 storage'[k] = IF storage[k].id = call.id THEN call.thought
                               ELSE storage[k]
      /\ (call.op = "saveThought" /\ call.id \notin IdsOf(storage)) =>
            /\ Len(storage') = Len(storage) + 1
            /\ Range(storage') = Range(storage) \cup {call.thought}
      /\ call.op = "deleteThought" =>
            /\ Range(storage') = { t \in Range(storage) : t.id # call.id }
            /\ Len(storage') = Len(storage) - (IF call.id \in IdsOf(storage) THEN 1 ELSE 0)

C31_TokenFreshWhenReturned ==
  /\ accessToken # 0 => tokenExpiresAt = expiryOf[accessToken] - Margin
  /\ tokOut # NotCalled =>
       /\ tokOut.contacted =
            ~(tokOut.call.accessToken # 0 /\ tokOut.call.at < tokOut.call.tokenExpiresAt)
       /\ tokOut.outcome = "returned" =>
            /\ tokOut.at < expiryOf[tokOut.token]
            /\ ~tokOut.contacted => tokOut.token = tokOut.call.accessToken
            /\ tokOut.contacted =>
                 /\ tokOut.token = Len(expiryOf)
                 /\ tokOut.token # tokOut.call.accessToken

C31_Witness ==
  /\ tokOut # NotCalled
  /\ tokOut.outcome = "returned"
  /\ ~tokOut.contacted
  /\ tokOut.at = tokenExpiresAt - 1
  /\ tokOut.token = 2

\* C32: a failed or empty refresh never leads to a slot handed out twice: the
\* position given to the last plant is held by no other thought that is still
\* stored.
C32_NoSlotTwiceAfterFailedRefresh ==
  lastOp = "plant" =>
    \A k \in 1..Len(storage) :
      storage[k].id # lastPlanted.id => storage[k].position # lastPlanted.position

\* no saveThought or deleteThought is between its read and its write
NoWritePending ==
  /\ delPc # "write"
  /\ \A p \in Plants : plantPc[p] # "saveWrite"

\* C33: overlapping storage writes are not lost: once the writes of a plant's
\* saveThought and of a deleteThought for another thought have both been made,
\* the store holds the planted thought and no longer holds the deleted one.
C33_OverlappingWritesKept ==
  NoWritePending =>
    /\ (deletes > 0 /\ delPc # "read") => delId \notin IdsOf(storage)
    /\ \A p \in Plants :
         (plantPc[p] \in {"refreshRead", "finish"} /\ plantCard[p].id # delId) =>
           plantCard[p] \in Range(storage)

\* C34: every plant eventually clears the loading flag, whether it succeeds
\* or fails, and while the flag is set no submission of the planting form
\* starts a plant.
C34_LoadingFlagCleared ==
  /\ isLoading ~> ~isLoading
  /\ [][submits' # submits => ~isLoading]_vars

\* the plant p has not written to the store yet
BeforeWrite(p) ==
  plantPc[p] \in {"generating", "saveRead", "saveWrite"}

\* the step in which handlePlant's catch block runs for plant p
PlantFails(p) ==
  BeforeWrite(p) /\ plantPc'[p] = "idle"

\* C35: a plant whose content generation or save fails adds no thought: up to
\* the failure its card is neither stored nor in the garden's list, the failing
\* step changes neither of them, and so its slot is held by no thought of it.
C35_FailedPlantAddsNothing ==
  /\ [](\A p \in Plants :
         (BeforeWrite(p) /\ plantCard[p] # NoThought) =>
           /\ plantCard[p].id \notin IdsOf(storage)
           /\ plantCard[p].id \notin IdsOf(gardenThoughts))
  /\ [][\A p \in Plants :
         PlantFails(p) =>
           /\ storage' = storage
           /\ gardenThoughts' = gardenThoughts
           /\ plantCard[p] # NoThought =>
                /\ plantCard[p].id \notin IdsOf(storage')
                /\ plantCard[p].id \notin IdsOf(gardenThoughts')]_vars

C35_Witness ==
  \E p \in Plants :
    /\ plantPc[p] = "idle"
    /\ ~isLoading
    /\ plantCard[p] # NoThought
    /\ plantCard[p].id \notin IdsOf(storage)
    /\ deletes = 0
    /\ Len(storage) >= 1
    /\ gardenThoughts = Refreshed(storage)

\* C36: for every thought list and island count, isFull of useIslandLayout is
\* true exactly when getNextAvailableSlot returns null.
C36_FullIffNoSlot ==
  outSlot # NotCalled => (isFull(inThoughts, inCount) <=> outSlot = NULL)

\* rectangle a ends at least the gap before rectangle b begins, horizontally
\* or vertically
GapBetween(a, b) ==
  \/ a.x + a.width + ISLAND_GAP <= b.x
  \/ a.y + a.height + ISLAND_GAP <= b.y

\* C38: for every island count the rectangles of two distinct islands do not
\* overlap: they lie at least the inter-island gap apart horizontally or
\* vertically.
C38_IslandsApart ==
  (layInput.kind = "world" /\ layOutput # NotCalled) =>
    \A i, j \in 1..Len(layOutput.islands) :
      i # j => \/ GapBetween(layOutput.islands[i], layOutput.islands[j])
               \/ GapBetween(layOutput.islands[j], layOutput.islands[i])

C38_Witness ==
  /\ layInput.kind = "world"
  /\ layOutput # NotCalled
  /\ Len(layOutput.islands) = MaxIsland
  /\ layOutput.islands[MaxIsland].index = MaxIsland - 1
  /\ layOutput.islands[4].x > 0
  /\ layOutput.islands[4].y > 0

\* C37: the world coordinates of every slot getNextAvailableSlot returns are
\* the ones thoughtToWorldPosition computes for a thought stored at
\* slotToPosition of that slot.
C37_AnnouncedWhereDrawn ==
  (outSlot # NotCalled /\ outSlot # NULL) =>
    slotWorld(outSlot) = thoughtToWorldPosition(slotToPosition(outSlot))

C37_Witness ==
  /\ outSlot # NotCalled
  /\ outSlot # NULL
  /\ outSlot.islandIndex = MaxIslandCount - 1
  /\ slotWorld(outSlot).x > 0
  /\ slotWorld(outSlot).y > slotWorld([outSlot EXCEPT !.islandIndex = 0]).y

\* C39: while panning, a pointer move sets the camera offset to the offset at
\* pointer-down plus the pointer's displacement since then and leaves the scale
\* unchanged. panStart is the pointer at pointer-down minus the offset the stage
\* then had (the camera's own offset whenever no animation is playing), it
\* changes at no other step, and a move while panning puts the camera at the
\* pointer minus panStart with the scale it had.
C39_PanKeepsScale ==
  [][ /\ (StepOf("down") /\ lastEvent'.target = "stage") =>
           /\ panStart'.x = lastEvent'.client.x - stage.x
           /\ panStart'.y = lastEvent'.client.y - stage.y
           /\ tweens = {} => (stage.x = camera.x /\ stage.y = camera.y)
           /\ camera' = camera
      /\ panStart' # panStart => (StepOf("down") /\ lastEvent'.target = "stage")
      /\ (StepOf("move") /\ isPanning) =>
           /\ camera'.x = lastEvent'.client.x - panStart.x
           /\ camera'.y = lastEvent'.client.y - panStart.y
           /\ camera'.scale = camera.scale
           /\ isPanning'
    ]_vars

\* a pan at a zoomed scale has moved the camera
C39_Witness ==
  /\ lastEvent.kind = "move"
  /\ isPanning
  /\ camera.scale # ScaleUnit
  /\ camera.x = lastEvent.client.x - panStart.x
  /\ panStart.x # 0

\* the update log of a thought is chained, newest first
Chained(t) ==
  LET log == t.updates
  IN IF log = << >> THEN t.growthStage = "seed"
     ELSE /\ log[1].newStage = t.growthStage
          /\ \A i \in 1..(Len(log) - 1) : log[i].previousStage = log[i + 1].newStage
          /\ log[Len(log)].previousStage = "seed"

\* C40: after any sequence of waterings the update log of a thought is newest
\* first and chained: the first entry's newStage is the thought's stage, each
\* entry's previousStage is the newStage of the entry after it, the oldest
\* entry starts from seed; and each watering puts exactly one entry in front
\* of the log of the thought it was called with.
C40_UpdateLogChained ==
  /\ [](\A t \in ThoughtsHeld : Chained(t))
  /\ [][(watPc = "watering" /\ watPc' = "saveRead") =>
          /\ Len(watCard'.updates) = Len(watThought.updates) + 1
          /\ Tail(watCard'.updates) = watThought.updates
          /\ watCard'.updates[1].previousStage = watThought.growthStage]_vars

C40_Witness ==
  \E t \in Range(storage) :
    /\ Len(t.updates) = MaxWaters
    /\ t.updates[1].previousStage # "seed"
    /\ t.updates[1].newStage # t.updates[1].previousStage

====
